---- MODULE Spec2Model ----
(***************************************************************************)
(* The sync pass of the postgres-operator (pkg/cluster/sync.go): the       *)
(* orchestrator Cluster.Sync and the reconcilers it calls, as a state      *)
(* machine over the Cluster aggregate, the Kubernetes resource stores and  *)
(* the database. One action per external call of a reconciler; the local   *)
(* computation that follows a call belongs to the call's action.           *)
(***************************************************************************)
EXTENDS Integers, Sequences, FiniteSets, TLC

(***************************************************************************)
(* Bounds of the model.                                                    *)
(***************************************************************************)
\* transport failures ("Other" errors) the stores and the database may answer
MaxFaults == 1
\* changes made by actors other than this engine: an edited manifest, a
\* changed or rotated password, a deleted statefulset, a lost create race
MaxEvents == 1

(***************************************************************************)
(* Errors. An error carries its class (the three classes the resource      *)
(* client distinguishes), the call it arose in and the contexts it was     *)
(* wrapped with, outermost first.                                          *)
(***************************************************************************)
NoError == [class |-> "nil", origin |-> <<>>, ctx |-> <<>>]

ApiError(class, kind, op) == [class |-> class, origin |-> <<kind, op>>, ctx |-> <<>>]

\* errors.New / fmt.Errorf without an underlying error
NewError(msg) == [class |-> "Other", origin |-> <<"local", msg>>, ctx |-> <<>>]

\* fmt.Errorf("msg: %v", e): the text of e is kept, its type is not; the
\* result is a plain error that no longer classifies as an API status.
Errorf(msg, e) == [class |-> "Other", origin |-> e.origin, ctx |-> <<msg>> \o e.ctx]

ResourceAlreadyExists(e) == e.class = "AlreadyExists"

ResourceNotFound(e) == e.class = "NotFound"

(***************************************************************************)
(* Resources. A stored object is its definition (the revision of the spec  *)
(* it was generated from; 0 for a definition no spec of the model          *)
(* generates) and, for the statefulset, the rolling-update flag.           *)
(***************************************************************************)
Absent == [here |-> FALSE, def |-> 0, flag |-> FALSE]

Obj(def, flag) == [here |-> TRUE, def |-> def, flag |-> flag]

NoSecret == [here |-> FALSE, username |-> "", password |-> ""]

Secret(username, password) == [here |-> TRUE, username |-> username, password |-> password]

\* []PostgresRole{Master, Replica}
Roles == <<"master", "replica">>

OtherPassword(p) == IF p = "p1" THEN "p2" ELSE "p1"

(***************************************************************************)
(* Manifests: the desired specs Sync is called with.                       *)
(*   rev        the content the generators turn into resource definitions  *)
(*   pool       needConnectionPoolWorker(spec)                             *)
(*   backup     Spec.EnableLogicalBackup                                   *)
(*   instances  getNumberOfInstances(spec)                                 *)
(*   dbAccess   not databaseAccessDisabled() and no StandbyCluster         *)
(*   params     Spec.Parameters holds a bootstrap-only parameter           *)
(***************************************************************************)
Manifest(rev, pool, backup, instances, dbAccess, params) ==
    [rev |-> rev, pool |-> pool, backup |-> backup, instances |-> instances,
     dbAccess |-> dbAccess, params |-> params]

Manifests ==
    { Manifest(1, TRUE, TRUE, 1, TRUE, TRUE),
      Manifest(2, TRUE, TRUE, 1, TRUE, TRUE),
      Manifest(1, FALSE, FALSE, 1, TRUE, FALSE),
      Manifest(1, FALSE, TRUE, 0, TRUE, FALSE) }

\* Spec.Databases: database name -> owner
Databases(m) ==
    IF m.rev = 1 THEN ("a" :> "o1") ELSE ("a" :> "o2") @@ ("b" :> "o1")

(***************************************************************************)
(* Accounts.                                                               *)
(***************************************************************************)
SuperuserKeyName == "superuser"

ReplicationUserKeyName == "replication"

ConnectionPoolUserKeyName == "pooler"

RoleOriginInfrastructure == "Infrastructure"

PgUser(name, password, origin) == [Name |-> name, Password |-> password, Origin |-> origin]

\* the zero value a Go map lookup yields for a missing key
ZeroPgUser == PgUser("", "", "Unknown")

Lookup(userMap, key) == IF key \in DOMAIN userMap THEN userMap[key] ELSE ZeroPgUser

SecretNames == {"postgres", "standby", "app", "infra", "pooler"}

VARIABLES
    c,       \* the Cluster aggregate: Postgresql, Status, mu, systemUsers,
             \* pgUsers, Secrets, Services, Endpoints, PodDisruptionBudget,
             \* Statefulset, ConnectionPool
    kube,    \* the resource stores, one per kind
    pg,      \* the database: open connections, roles, databases
    conf,    \* the passwords the accounts are configured with
    pc,      \* position of the running Sync ("idle": no pass in progress)
    loc,     \* local variables of Sync and of the reconciler it is in
    trace,   \* calls issued by the current pass: <<kind, op, result>>
    rets,    \* what each reconciler of the current pass returned to Sync
    seen,    \* per account, what secret reconciliation met in the current pass
    ret,     \* what the last completed pass returned
    faults,  \* transport failures so far
    events,  \* outside changes so far
    quiet    \* the last pass returned nil and no other actor has acted since

vars == <<c, kube, pg, conf, pc, loc, trace, rets, seen, ret, faults, events, quiet>>

(***************************************************************************)
(* Local variables. oldSpec, err and retval are Sync's; again and clean     *)
(* tell how this call follows the one before it; the others belong to the  *)
(* reconciler that is running and are reset when it returns.               *)
(***************************************************************************)
NoLocals ==
    [oldSpec |-> Manifest(0, FALSE, FALSE, 0, FALSE, FALSE),
     err |-> NoError, retval |-> NoError, again |-> FALSE, clean |-> FALSE,
     secrets |-> <<>>, todo |-> {}, cur |-> "", role |-> 1,
     rolling |-> FALSE, pods |-> FALSE, present |-> FALSE, match |-> FALSE,
     pending |-> FALSE, rollingUpdate |-> FALSE, create |-> {}, alter |-> {},
     ferr |-> NoError]

SyncLocals(err, retval) ==
    [NoLocals EXCEPT !.oldSpec = loc.oldSpec, !.again = loc.again,
                     !.clean = loc.clean, !.err = err, !.retval = retval]

(***************************************************************************)
(* The initial state: a cluster object constructed from a manifest, with   *)
(* nothing observed yet, over stores that hold none of its resources.      *)
(***************************************************************************)
NotSeen == [done |-> FALSE, got |-> NoSecret, user |-> ZeroPgUser, updates |-> 0]

NothingSeen == [n \in SecretNames |-> NotSeen]

NoConnectionPool ==
    [set |-> FALSE, Deployment |-> Absent, Service |-> Absent, LookupFunction |-> FALSE]

Init ==
    /\ \E m \in Manifests :
         c = [Postgresql |-> m, Status |-> "Creating", mu |-> FALSE, passes |-> 0,
              systemUsers |-> <<>>, pgUsers |-> <<>>, Secrets |-> {},
              Services |-> [r \in {"master", "replica"} |-> Absent],
              Endpoints |-> [r \in {"master", "replica"} |-> Absent],
              PodDisruptionBudget |-> Absent, Statefulset |-> Absent,
              ConnectionPool |-> NoConnectionPool]
    /\ kube = [secrets |-> [n \in SecretNames |-> NoSecret],
               services |-> [r \in {"master", "replica"} |-> Absent],
               endpoints |-> [r \in {"master", "replica"} |-> Absent],
               pdb |-> Absent, sset |-> Absent, pods |-> FALSE, orphans |-> FALSE, leftover |-> FALSE,
               job |-> Absent,
               deployment |-> Absent, poolsvc |-> Absent, volumes |-> 0]
    /\ pg = [conn |-> FALSE, roles |-> {}, databases |-> <<>>, lookup |-> FALSE]
    /\ conf = [n \in SecretNames |-> "p1"]
    /\ pc = "idle"
    /\ loc = NoLocals
    /\ trace = <<>>
    /\ rets = <<>>
    /\ seen = NothingSeen
    /\ ret = NoError
    /\ faults = 0
    /\ events = 0
    /\ quiet = FALSE

(***************************************************************************)
(* Budgets and the call log.                                               *)
(***************************************************************************)
Fault == faults < MaxFaults /\ faults' = faults + 1

NoFault == faults' = faults

Event == events < MaxEvents /\ events' = events + 1

NoEvent == events' = events

Call(kind, op, res) == trace' = Append(trace, <<kind, op, res>>)

\* a call logged with what it was about or what it answered
CallOn(kind, op, res, what) == trace' = Append(trace, <<kind, op, res, what>>)

(***************************************************************************)
(* Cluster.Sync: what it does with the value a step returns.               *)
(***************************************************************************)
\* line 90: c.Spec.EnableLogicalBackup && c.getNumberOfInstances(&c.Spec) > 0
BackupWanted(m) == m.backup /\ m.instances > 0

\* line 100: !(c.databaseAccessDisabled() || instances <= 0 || StandbyCluster != nil)
DatabaseWanted(m) == ~(~m.dbAccess \/ m.instances <= 0)

AfterBackup(m) == IF DatabaseWanted(m) THEN "roles" ELSE "pool"

\* the workload set ahead of the volumes
AfterStepWorkloadFirst(step, m) ==
    CASE step = "initUsers" -> "secrets"
      [] step = "secrets"   -> "services"
      [] step = "services"  -> "sset"
      [] step = "sset"      -> "volumes"
      [] step = "volumes"   -> "limits"
      [] step = "limits"    -> "pdb"
      [] step = "pdb"       -> IF BackupWanted(m) THEN "backup" ELSE AfterBackup(m)
      [] step = "backup"    -> AfterBackup(m)
      [] step = "roles"     -> "databases"
      [] step = "databases" -> "pool"
      [] step = "pool"      -> "defer"

\* the step that follows `step` in the body of Sync
AfterStep(step, m) ==
    CASE step = "initUsers" -> "secrets"
      [] step = "secrets"   -> "services"
      [] step = "services"  -> "volumes"
      [] step = "volumes"   -> "limits"
      [] step = "limits"    -> "sset"
      [] step = "sset"      -> "pdb"
      [] step = "pdb"       -> IF BackupWanted(m) THEN "backup" ELSE AfterBackup(m)
      [] step = "backup"    -> AfterBackup(m)
      [] step = "roles"     -> "databases"
      [] step = "databases" -> "pool"
      [] step = "pool"      -> "defer"

Context(step) ==
    CASE step = "initUsers" -> "could not init users"
      [] step = "secrets"   -> "could not sync secrets"
      [] step = "services"  -> "could not sync services"
      [] step = "volumes"   -> "could not sync persistent volumes"
      [] step = "limits"    -> "could not enforce minimum resource limits"
      [] step = "sset"      -> "could not sync statefulsets"
      [] step = "pdb"       -> "could not sync pod disruption budget"
      [] step = "backup"    -> "could not sync the logical backup job"
      [] step = "roles"     -> "could not sync roles"
      [] step = "databases" -> "could not sync databases"
      [] step = "pool"      -> "could not sync connection pool"

\* lines 76-81: only the workload step's error is looked at before aborting
Tolerated(step, e) == step = "sset" /\ ResourceAlreadyExists(e)

\* the error of initUsers is wrapped but Sync does not return on it
SyncAfterGoingOn(step, e) ==
    IF e # NoError /\ ~Tolerated(step, e) /\ step # "initUsers"
    THEN /\ pc' = "defer"
         /\ loc' = IF step = "pool"
                   THEN SyncLocals(e, Errorf(Context(step), e))
                   ELSE SyncLocals(Errorf(Context(step), e), Errorf(Context(step), e))
    ELSE /\ pc' = AfterStep(step, c.Postgresql)
         /\ loc' = SyncLocals(IF e = NoError THEN e ELSE Errorf(Context(step), e),
                              IF step = "pool" THEN e ELSE NoError)

\* lines 39-118: `err = step(); if err != nil { err = fmt.Errorf(..); return err }`
\* and, for the connection pool, `return fmt.Errorf(..)` with err left as it is.
SyncAfter(step, e) ==
    IF e # NoError /\ ~Tolerated(step, e)
    THEN /\ pc' = "defer"
         /\ loc' = IF step = "pool"
                   THEN SyncLocals(e, Errorf(Context(step), e))
                   ELSE SyncLocals(Errorf(Context(step), e), Errorf(Context(step), e))
    ELSE /\ pc' = AfterStep(step, c.Postgresql)
         /\ loc' = SyncLocals(e, IF step = "pool" THEN e ELSE NoError)

\* a reconciler returns e to Sync
StepReturns(step, e) ==
    /\ rets' = Append(rets, [step |-> step, err |-> e, at |-> Len(trace')])
    /\ SyncAfter(step, e)

\* c.setSpec(newSpec)
SetSpec(cl, newSpec) == [cl EXCEPT !.Postgresql = newSpec]

\* c.setStatus(status)
SetStatus(cl, status) == [cl EXCEPT !.Status = status]

\* the deferred function without its first branch
SyncDeferredRunningOnly(cl, err) ==
    IF cl.Status # "Running" THEN SetStatus(cl, "Running") ELSE cl

\* a failed pass puts the old spec back
SyncDeferredReverting(cl, err) ==
    IF err # NoError THEN SetSpec(SetStatus(cl, "SyncFailed"), loc.oldSpec)
    ELSE IF cl.Status # "Running" THEN SetStatus(cl, "Running")
    ELSE cl

\* lines 30-37, the deferred function
SyncDeferred(cl, err) ==
    IF err # NoError THEN SetStatus(cl, "SyncFailed")
    ELSE IF cl.Status # "Running" THEN SetStatus(cl, "Running")
    ELSE cl

\* a pass none of whose calls failed and which lost no create race
Undisturbed(t) ==
    \A k \in 1..Len(t) :
        /\ t[k][3] # "Other"
        /\ t[k][3] = "AlreadyExists" => t[k][1] = "secret"

\* c.mu: a caller of Lock goes on when the mutex is free, and waits otherwise
Locked(cl) == cl.mu

\* the mutex is not taken
LockNot(cl) == [cl EXCEPT !.passes = @ + 1]

\* line 24, c.mu.Lock(): one more call of Sync is past it
Lock(cl) == [cl EXCEPT !.mu = TRUE, !.passes = @ + 1]

\* line 25, the deferred c.mu.Unlock()
Unlock(cl) == [cl EXCEPT !.mu = FALSE, !.passes = @ - 1]

\* lines 22-28: Lock, oldSpec := c.Postgresql, setSpec(newSpec)
Sync_Begin(newSpec) ==
    /\ ~Locked(c)
    /\ IF newSpec # c.Postgresql THEN Event ELSE NoEvent
    /\ c' = SetSpec(Lock(c), newSpec)
    /\ loc' = [NoLocals EXCEPT !.oldSpec = c.Postgresql,
                               !.again = quiet /\ newSpec = c.Postgresql,
                               !.clean = quiet /\ newSpec = c.Postgresql
                                         /\ Undisturbed(trace)]
    /\ pc' = "initUsers"
    /\ trace' = <<>>
    /\ rets' = <<>>
    /\ seen' = NothingSeen
    /\ quiet' = FALSE
    /\ UNCHANGED <<kube, pg, conf, ret, faults>>

\* the return of Sync: the deferred function, then Unlock
Sync_Return ==
    /\ pc = "defer"
    /\ c' = Unlock(SyncDeferred(c, loc.err))
    /\ ret' = loc.retval
    /\ quiet' = (loc.retval = NoError)
    /\ pc' = "idle"
    /\ loc' = NoLocals
    /\ UNCHANGED <<kube, pg, conf, trace, rets, seen, faults, events>>

(***************************************************************************)
(* initUsers: the registries are rebuilt from the configuration.           *)
(***************************************************************************)
NeedConnectionPool(m) == m.pool

ConnPoolUser == PgUser("pooler", conf["pooler"], "ConnectionPool")

InitSystemUsers(m) ==
    (SuperuserKeyName :> PgUser("postgres", conf["postgres"], "System"))
    @@ (ReplicationUserKeyName :> PgUser("standby", conf["standby"], "System"))
    @@ (IF NeedConnectionPool(m) THEN (ConnectionPoolUserKeyName :> ConnPoolUser) ELSE <<>>)

InitPgUsers(m) ==
    ("app" :> PgUser("app", conf["app"], "Manifest"))
    @@ ("infra" :> PgUser("infra", conf["infra"], RoleOriginInfrastructure))
    @@ (IF NeedConnectionPool(m) THEN ("pooler" :> ConnPoolUser) ELSE <<>>)

InitUsers ==
    /\ pc = "initUsers"
    /\ \/ /\ NoFault
          /\ c' = [c EXCEPT !.systemUsers = InitSystemUsers(c.Postgresql),
                            !.pgUsers = InitPgUsers(c.Postgresql)]
          /\ trace' = trace
          /\ StepReturns("initUsers", NoError)
       \/ /\ Fault
          /\ c' = c
          /\ trace' = trace
          /\ StepReturns("initUsers", NewError("invalid user"))
    /\ UNCHANGED <<kube, pg, conf, seen, ret, events, quiet>>

(***************************************************************************)
(* syncSecrets (lines 399-452).                                            *)
(***************************************************************************)
\* c.generateUserSecrets(): one secret per account, keyed by the user name;
\* the system users are written after the declared ones.
GenerateUserSecrets(cl) ==
    LET fromPg == [n \in DOMAIN cl.pgUsers |->
                      Secret(cl.pgUsers[n].Name, cl.pgUsers[n].Password)]
        sysNames == {cl.systemUsers[k].Name : k \in DOMAIN cl.systemUsers}
        sysOf(n) == CHOOSE k \in DOMAIN cl.systemUsers : cl.systemUsers[k].Name = n
        fromSys == [n \in sysNames |-> Secret(n, cl.systemUsers[sysOf(n)].Password)]
    IN  fromSys @@ fromPg

\* lines 423-431: the registry and the key the fetched secret's password goes to
UserMapOf(cl, secretUsername) ==
    IF secretUsername = Lookup(cl.systemUsers, SuperuserKeyName).Name
    THEN [map |-> "systemUsers", key |-> SuperuserKeyName]
    ELSE IF secretUsername = Lookup(cl.systemUsers, ReplicationUserKeyName).Name
    THEN [map |-> "systemUsers", key |-> ReplicationUserKeyName]
    ELSE [map |-> "pgUsers", key |-> secretUsername]

\* line 432: pwdUser := userMap[secretUsername]
PwdUser(cl, secretUsername) ==
    LET at == UserMapOf(cl, secretUsername)
    IN  IF at.map = "systemUsers" THEN Lookup(cl.systemUsers, at.key)
        ELSE Lookup(cl.pgUsers, at.key)

\* the password is written back whatever the secret holds
SecretNeedsUpdateByOrigin(pwdUser, secret) ==
    pwdUser.Origin = RoleOriginInfrastructure

\* the origin of the account is not looked at
SecretNeedsUpdateAnyOrigin(pwdUser, secret) ==
    pwdUser.Password # secret.password

\* the secret always wins
SecretNeedsUpdateNever(pwdUser, secret) == FALSE

\* lines 434-435
SecretNeedsUpdate(pwdUser, secret) ==
    /\ pwdUser.Password # secret.password
    /\ pwdUser.Origin = RoleOriginInfrastructure

\* lines 443-444: pwdUser.Password = secret password; userMap[secretUsername] = pwdUser
MergePassword(cl, secretUsername, secret) ==
    LET at == UserMapOf(cl, secretUsername)
        pwdUser == [PwdUser(cl, secretUsername) EXCEPT !.Password = secret.password]
    IN  IF at.map = "systemUsers"
        THEN [cl EXCEPT !.systemUsers = (at.key :> pwdUser) @@ @]
        ELSE [cl EXCEPT !.pgUsers = (at.key :> pwdUser) @@ @]

\* line 405
SyncSecrets_Start ==
    /\ pc = "secrets"
    /\ loc' = [loc EXCEPT !.secrets = GenerateUserSecrets(c),
                          !.todo = DOMAIN GenerateUserSecrets(c)]
    /\ pc' = "secrets.create"
    /\ UNCHANGED <<c, kube, pg, conf, trace, rets, seen, ret, faults, events, quiet>>

\* the loop goes on with the next account
SecretsContinue(u) ==
    /\ loc' = [loc EXCEPT !.todo = @ \ {u}, !.cur = ""]
    /\ pc' = "secrets.create"
    /\ rets' = rets

\* lines 407-413 and 446-448: the next account of the map, in any order
SyncSecrets_Create ==
    /\ pc = "secrets.create"
    /\ \E u \in loc.todo :
         \/ /\ ~kube.secrets[u].here
            /\ NoFault
            /\ Call("secret", "create", "ok")
            /\ kube' = [kube EXCEPT !.secrets[u] = loc.secrets[u]]
            /\ c' = [c EXCEPT !.Secrets = @ \cup {u}]
            /\ seen' = [seen EXCEPT ![u].done = TRUE]
            /\ SecretsContinue(u)
         \/ /\ kube.secrets[u].here
            /\ NoFault
            /\ Call("secret", "create", "AlreadyExists")
            /\ loc' = [loc EXCEPT !.cur = u]
            /\ pc' = "secrets.get"
            /\ UNCHANGED <<c, kube, rets, seen>>
         \/ /\ Fault
            /\ Call("secret", "create", "Other")
            /\ StepReturns("secrets", Errorf("could not create secret for user",
                                             ApiError("Other", "secret", "create")))
            /\ UNCHANGED <<c, kube, seen>>
    /\ UNCHANGED <<pg, conf, ret, events, quiet>>

\* lines 415-445 up to the update call
SyncSecrets_Get ==
    /\ pc = "secrets.get"
    /\ LET u == loc.cur
           secret == kube.secrets[u]
           pwdUser == PwdUser(c, u)
       IN  \/ /\ NoFault
              /\ Call("secret", "get", "ok")
              /\ IF u # secret.username
                 THEN /\ seen' = [seen EXCEPT ![u] = [@ EXCEPT !.done = TRUE, !.got = secret]]
                      /\ c' = c
                      /\ SecretsContinue(u)
                 ELSE IF SecretNeedsUpdate(pwdUser, secret)
                 THEN /\ seen' = [seen EXCEPT ![u] = [@ EXCEPT !.got = secret, !.user = pwdUser]]
                      /\ c' = c
                      /\ pc' = "secrets.update"
                      /\ UNCHANGED <<loc, rets>>
                 ELSE /\ seen' = [seen EXCEPT ![u] = [done |-> TRUE, got |-> secret,
                                                      user |-> pwdUser, updates |-> 0]]
                      /\ c' = MergePassword(c, u, secret)
                      /\ SecretsContinue(u)
           \/ /\ Fault
              /\ Call("secret", "get", "Other")
              /\ StepReturns("secrets", Errorf("could not get current secret",
                                               ApiError("Other", "secret", "get")))
              /\ UNCHANGED <<c, seen>>
    /\ UNCHANGED <<kube, pg, conf, ret, events, quiet>>

\* lines 438-440
SyncSecrets_Update ==
    /\ pc = "secrets.update"
    /\ LET u == loc.cur
       IN  \/ /\ NoFault
              /\ Call("secret", "update", "ok")
              /\ kube' = [kube EXCEPT !.secrets[u] = loc.secrets[u]]
              /\ seen' = [seen EXCEPT ![u] = [@ EXCEPT !.done = TRUE, !.updates = @ + 1]]
              /\ SecretsContinue(u)
           \/ /\ Fault
              /\ Call("secret", "update", "Other")
              /\ seen' = [seen EXCEPT ![u].updates = @ + 1]
              /\ kube' = kube
              /\ StepReturns("secrets",
                             Errorf("could not update infrastructure role secret for role",
                                    ApiError("Other", "secret", "update")))
    /\ UNCHANGED <<c, pg, conf, ret, events, quiet>>

\* line 451
SyncSecrets_Return ==
    /\ pc = "secrets.create"
    /\ loc.todo = {}
    /\ trace' = trace
    /\ StepReturns("secrets", NoError)
    /\ UNCHANGED <<c, kube, pg, conf, seen, ret, faults, events, quiet>>

(***************************************************************************)
(* The generators and comparators. A definition generated from a spec is   *)
(* that spec's revision; two definitions are the same when their           *)
(* revisions are (annotations such as the rolling-update flag do not count).*)
(***************************************************************************)
Generate(m) == Obj(m.rev, FALSE)

SameDefinition(live, desired) == live.def = desired.def

\* what another actor's create leaves in the store
Foreign == Obj(0, FALSE)

(***************************************************************************)
(* syncServices (lines 121-135), syncEndpoint (178-210), syncService       *)
(* (137-176).                                                              *)
(***************************************************************************)
Role == Roles[loc.role]

\* line 122: the next role of the loop, or line 134
ServicesNext ==
    IF loc.role < Len(Roles)
    THEN /\ pc' = "services"
         /\ loc' = [loc EXCEPT !.role = @ + 1]
         /\ rets' = rets
    ELSE StepReturns("services", NoError)

EndpointFails(msg, op) ==
    StepReturns("services", Errorf("could not sync endpoint",
                                   Errorf(msg, ApiError("Other", "endpoint", op))))

ServiceFails(msg, op) ==
    StepReturns("services", Errorf("could not sync service",
                                   Errorf(msg, ApiError("Other", "service", op))))

\* lines 185-195
SyncEndpoint_Get ==
    /\ pc = "services"
    /\ \/ /\ kube.endpoints[Role].here
          /\ NoFault
          /\ CallOn("endpoint", "get", "ok", Role)
          /\ c' = [c EXCEPT !.Endpoints[Role] = kube.endpoints[Role]]
          /\ pc' = "service.get"
          /\ UNCHANGED <<loc, rets>>
       \/ /\ ~kube.endpoints[Role].here
          /\ NoFault
          /\ CallOn("endpoint", "get", "NotFound", Role)
          /\ c' = [c EXCEPT !.Endpoints[Role] = Absent]
          /\ pc' = "endpoint.create"
          /\ UNCHANGED <<loc, rets>>
       \/ /\ Fault
          /\ CallOn("endpoint", "get", "Other", Role)
          /\ c' = c
          /\ EndpointFails("could not get endpoint", "get")
    /\ UNCHANGED <<kube, pg, conf, seen, ret, events, quiet>>

\* lines 197-203 and 208
SyncEndpoint_Create ==
    /\ pc = "endpoint.create"
    /\ \/ /\ NoFault /\ NoEvent
          /\ CallOn("endpoint", "create", "ok", Role)
          /\ kube' = [kube EXCEPT !.endpoints[Role] = Generate(c.Postgresql)]
          /\ c' = [c EXCEPT !.Endpoints[Role] = Generate(c.Postgresql)]
          /\ pc' = "service.get"
          /\ UNCHANGED <<loc, rets>>
       \/ /\ NoFault /\ Event
          /\ CallOn("endpoint", "create", "AlreadyExists", Role)
          /\ kube' = [kube EXCEPT !.endpoints[Role] = Foreign]
          /\ c' = c
          /\ pc' = "endpoint.fetch"
          /\ UNCHANGED <<loc, rets>>
       \/ /\ Fault /\ NoEvent
          /\ CallOn("endpoint", "create", "Other", Role)
          /\ UNCHANGED <<c, kube>>
          /\ EndpointFails("could not create missing endpoint", "create")
    /\ UNCHANGED <<pg, conf, seen, ret, quiet>>

\* lines 204-208
SyncEndpoint_Fetch ==
    /\ pc = "endpoint.fetch"
    /\ \/ /\ NoFault
          /\ CallOn("endpoint", "get", "ok", Role)
          /\ c' = [c EXCEPT !.Endpoints[Role] = kube.endpoints[Role]]
          /\ pc' = "service.get"
          /\ UNCHANGED <<loc, rets>>
       \/ /\ Fault
          /\ CallOn("endpoint", "get", "Other", Role)
          /\ c' = c
          /\ EndpointFails("could not fetch existing endpoint", "get")
    /\ UNCHANGED <<kube, pg, conf, seen, ret, events, quiet>>

\* lines 144-161
SyncService_Get ==
    /\ pc = "service.get"
    /\ \/ /\ kube.services[Role].here
          /\ NoFault
          /\ CallOn("service", "get", "ok", Role)
          /\ c' = [c EXCEPT !.Services[Role] = kube.services[Role]]
          /\ IF SameDefinition(kube.services[Role], Generate(c.Postgresql))
             THEN ServicesNext
             ELSE pc' = "service.update" /\ UNCHANGED <<loc, rets>>
       \/ /\ ~kube.services[Role].here
          /\ NoFault
          /\ CallOn("service", "get", "NotFound", Role)
          /\ c' = [c EXCEPT !.Services[Role] = Absent]
          /\ pc' = "service.create"
          /\ UNCHANGED <<loc, rets>>
       \/ /\ Fault
          /\ CallOn("service", "get", "Other", Role)
          /\ c' = c
          /\ ServiceFails("could not get service", "get")
    /\ UNCHANGED <<kube, pg, conf, seen, ret, events, quiet>>

\* lines 149-154: c.updateService(role, desiredSvc)
SyncService_Update ==
    /\ pc = "service.update"
    /\ \/ /\ NoFault
          /\ CallOn("service", "update", "ok", Role)
          /\ kube' = [kube EXCEPT !.services[Role] = Generate(c.Postgresql)]
          /\ c' = [c EXCEPT !.Services[Role] = Generate(c.Postgresql)]
          /\ ServicesNext
       \/ /\ Fault
          /\ CallOn("service", "update", "Other", Role)
          /\ UNCHANGED <<c, kube>>
          /\ ServiceFails("could not update service to match desired state", "update")
    /\ UNCHANGED <<pg, conf, seen, ret, events, quiet>>

\* lines 163-169 and 174
SyncService_Create ==
    /\ pc = "service.create"
    /\ \/ /\ NoFault /\ NoEvent
          /\ CallOn("service", "create", "ok", Role)
          /\ kube' = [kube EXCEPT !.services[Role] = Generate(c.Postgresql)]
          /\ c' = [c EXCEPT !.Services[Role] = Generate(c.Postgresql)]
          /\ ServicesNext
       \/ /\ NoFault /\ Event
          /\ CallOn("service", "create", "AlreadyExists", Role)
          /\ kube' = [kube EXCEPT !.services[Role] = Foreign]
          /\ c' = c
          /\ pc' = "service.fetch"
          /\ UNCHANGED <<loc, rets>>
       \/ /\ Fault /\ NoEvent
          /\ CallOn("service", "create", "Other", Role)
          /\ UNCHANGED <<c, kube>>
          /\ ServiceFails("could not create missing service", "create")
    /\ UNCHANGED <<pg, conf, seen, ret, quiet>>

\* lines 170-175
SyncService_Fetch ==
    /\ pc = "service.fetch"
    /\ \/ /\ NoFault
          /\ CallOn("service", "get", "ok", Role)
          /\ c' = [c EXCEPT !.Services[Role] = kube.services[Role]]
          /\ ServicesNext
       \/ /\ Fault
          /\ CallOn("service", "get", "Other", Role)
          /\ c' = c
          /\ ServiceFails("could not fetch existing service", "get")
    /\ UNCHANGED <<kube, pg, conf, seen, ret, events, quiet>>

(***************************************************************************)
(* syncVolumes (lines 504-521) and enforceMinResourceLimits (line 70).     *)
(***************************************************************************)
\* c.volumesNeedResizing(c.Spec.Volume): the volumes that exist differ in size
VolumesNeedResizing(m) == kube.volumes # 0 /\ kube.volumes # m.rev

\* lines 507-513
SyncVolumes_Compare ==
    /\ pc = "volumes"
    /\ \/ /\ NoFault
          /\ Call("volume", "list", "ok")
          /\ IF VolumesNeedResizing(c.Postgresql)
             THEN pc' = "volumes.resize" /\ UNCHANGED <<loc, rets>>
             ELSE StepReturns("volumes", NoError)
       \/ /\ Fault
          /\ Call("volume", "list", "Other")
          /\ StepReturns("volumes", Errorf("could not compare size of the volumes",
                                           ApiError("Other", "volume", "list")))
    /\ UNCHANGED <<c, kube, pg, conf, seen, ret, events, quiet>>

\* lines 514-520
SyncVolumes_Resize ==
    /\ pc = "volumes.resize"
    /\ \/ /\ NoFault
          /\ Call("volume", "resize", "ok")
          /\ kube' = [kube EXCEPT !.volumes = c.Postgresql.rev]
          /\ StepReturns("volumes", NoError)
       \/ /\ Fault
          /\ Call("volume", "resize", "Other")
          /\ kube' = kube
          /\ StepReturns("volumes", Errorf("could not sync volumes",
                                           ApiError("Other", "volume", "resize")))
    /\ UNCHANGED <<c, pg, conf, seen, ret, events, quiet>>

\* line 70: a computation on the spec, which fails on a value it cannot parse
EnforceMinResourceLimits ==
    /\ pc = "limits"
    /\ trace' = trace
    /\ \/ NoFault /\ StepReturns("limits", NoError)
       \/ Fault /\ StepReturns("limits", NewError("could not parse resource limit"))
    /\ UNCHANGED <<c, kube, pg, conf, seen, ret, events, quiet>>

(***************************************************************************)
(* syncStatefulSet (lines 254-354).                                        *)
(***************************************************************************)
SsetFails(msg, e) == StepReturns("sset", Errorf(msg, e))

\* c.mergeRollingUpdateFlagUsingCache(sset): the flag of the live object,
\* or the cached one where the live object has lost it
MergeRollingUpdateFlagUsingCache(cl, sset) ==
    sset.flag \/ (cl.Statefulset.here /\ cl.Statefulset.flag)

\* c.setRollingUpdateFlagForStatefulSet(sset, val)
SetRollingUpdateFlagForStatefulSet(sset, val) == [sset EXCEPT !.flag = val]

\* c.compareStatefulSetWith(desired): {match, rollingUpdate, replace}; what a
\* mismatch asks for depends on the fields that differ
CompareStatefulSetWith(live, desired) ==
    IF SameDefinition(live, desired)
    THEN {[match |-> TRUE, rollingUpdate |-> FALSE, replace |-> FALSE]}
    ELSE {[match |-> FALSE, rollingUpdate |-> ru, replace |-> rp] : ru, rp \in BOOLEAN}

\* the test of cmp.match the wrong way round
RollingAfterCompareInverted(cmp, podsRollingUpdateRequired) ==
    IF cmp.match /\ ~podsRollingUpdateRequired
    THEN TRUE
    ELSE podsRollingUpdateRequired

\* every mismatch asks for the pods to be recreated
RollingAfterCompareAnyMismatch(cmp, podsRollingUpdateRequired) ==
    IF ~cmp.match THEN TRUE ELSE podsRollingUpdateRequired

\* lines 315-318: the flag after the comparison
RollingAfterCompare(cmp, podsRollingUpdateRequired) ==
    IF ~cmp.match /\ cmp.rollingUpdate /\ ~podsRollingUpdateRequired
    THEN TRUE
    ELSE podsRollingUpdateRequired

\* the desired definition without the stamp
DesiredStatefulSetUnstamped(m, podsRollingUpdateRequired) ==
    SetRollingUpdateFlagForStatefulSet(Generate(m), FALSE)

\* lines 311-318: the definition that update or replace applies
DesiredStatefulSet(m, podsRollingUpdateRequired) ==
    SetRollingUpdateFlagForStatefulSet(Generate(m), podsRollingUpdateRequired)

\* lines 259-266 and 291-331 up to the update or replace call
SyncStatefulSet_Get ==
    /\ pc = "sset"
    /\ \/ /\ kube.sset.here
          /\ Call("sset", "get", "ok")
          /\ \/ /\ NoFault
                /\ c' = [c EXCEPT !.Statefulset = kube.sset]
                /\ \E cmp \in CompareStatefulSetWith(
                                 kube.sset,
                                 DesiredStatefulSet(c.Postgresql,
                                     MergeRollingUpdateFlagUsingCache(c, kube.sset))) :
                     /\ loc' = [loc EXCEPT
                            !.present = TRUE,
                            !.match = cmp.match,
                            !.pending = MergeRollingUpdateFlagUsingCache(c, kube.sset),
                            !.rollingUpdate = cmp.rollingUpdate,
                            !.rolling = RollingAfterCompare(cmp,
                                     MergeRollingUpdateFlagUsingCache(c, kube.sset))]
                     /\ pc' = IF cmp.match THEN "sset.config"
                              ELSE IF ~cmp.replace THEN "sset.update"
                              ELSE "sset.replace"
                /\ rets' = rets
             \/ /\ Fault
                /\ c' = [c EXCEPT !.Statefulset = kube.sset]
                /\ SsetFails("could not parse current Postgres version",
                             NewError("unparseable version"))
             \/ /\ Fault
                /\ c' = [c EXCEPT !.Statefulset = kube.sset]
                /\ SsetFails("could not generate statefulset",
                             NewError("invalid spec"))
       \/ /\ ~kube.sset.here
          /\ NoFault
          /\ Call("sset", "get", "NotFound")
          /\ c' = [c EXCEPT !.Statefulset = Absent]
          /\ pc' = "sset.listPods"
          /\ UNCHANGED <<loc, rets>>
       \/ /\ Fault
          /\ Call("sset", "get", "Other")
          /\ c' = c
          /\ SsetFails("could not get statefulset", ApiError("Other", "sset", "get"))
    /\ UNCHANGED <<kube, pg, conf, seen, ret, events, quiet>>

\* lines 267-270
SyncStatefulSet_ListPods ==
    /\ pc = "sset.listPods"
    /\ \/ /\ NoFault
          /\ Call("pod", "list", IF kube.pods THEN "some" ELSE "none")
          /\ loc' = [loc EXCEPT !.pods = kube.pods]
          /\ pc' = "sset.create"
          /\ rets' = rets
       \/ /\ Fault
          /\ Call("pod", "list", "Other")
          /\ SsetFails("could not list pods of the statefulset",
                       ApiError("Other", "pod", "list"))
    /\ UNCHANGED <<c, kube, pg, conf, seen, ret, events, quiet>>

\* lines 272-275
SyncStatefulSet_Create ==
    /\ pc = "sset.create"
    /\ \/ /\ NoFault /\ NoEvent
          /\ Call("sset", "create", "ok")
          /\ kube' = [kube EXCEPT !.sset = Generate(c.Postgresql), !.leftover = loc.pods]
          /\ c' = [c EXCEPT !.Statefulset = Generate(c.Postgresql)]
          /\ pc' = "sset.wait"
          /\ UNCHANGED <<loc, rets>>
       \/ /\ NoFault /\ Event
          /\ Call("sset", "create", "AlreadyExists")
          /\ kube' = [kube EXCEPT !.sset = Foreign]
          /\ c' = c
          /\ SsetFails("could not create missing statefulset",
                       ApiError("AlreadyExists", "sset", "create"))
       \/ /\ Fault /\ NoEvent
          /\ Call("sset", "create", "Other")
          /\ UNCHANGED <<c, kube>>
          /\ SsetFails("could not create missing statefulset",
                       ApiError("Other", "sset", "create"))
    /\ UNCHANGED <<pg, conf, seen, ret, quiet>>

\* the pods found are not looked at
RollingAfterCreateNever(pods) == FALSE

\* line 281: podsRollingUpdateRequired = (len(pods) > 0)
RollingAfterCreate(pods) == pods

\* lines 277-288: the pods of the new statefulset become ready, or the wait
\* times out
SyncStatefulSet_WaitReady ==
    /\ pc = "sset.wait"
    /\ \/ /\ NoFault
          /\ Call("pod", "wait", "ok")
          /\ kube' = [kube EXCEPT
                !.pods = @ \/ c.Postgresql.instances > 0,
                !.volumes = IF @ = 0 /\ c.Postgresql.instances > 0
                            THEN c.Postgresql.rev ELSE @]
          /\ loc' = [loc EXCEPT !.rolling = RollingAfterCreate(loc.pods)]
          /\ pc' = IF RollingAfterCreate(loc.pods) THEN "sset.flag" ELSE "sset.config"
          /\ rets' = rets
       \/ /\ Fault
          /\ Call("pod", "wait", "Other")
          /\ kube' = kube
          /\ SsetFails("cluster is not ready", ApiError("Other", "pod", "wait"))
    /\ UNCHANGED <<c, pg, conf, seen, ret, events, quiet>>

\* c.applyRollingUpdateFlagforStatefulSet(val) on the live object
ApplyRollingUpdateFlag(val) ==
    /\ kube' = [kube EXCEPT !.sset = SetRollingUpdateFlagForStatefulSet(@, val)]
    /\ c' = [c EXCEPT !.Statefulset = SetRollingUpdateFlagForStatefulSet(kube.sset, val)]

\* lines 282-287
SyncStatefulSet_SetFlag ==
    /\ pc = "sset.flag"
    /\ \/ /\ NoFault
          /\ Call("sset", "setflag", "ok")
          /\ ApplyRollingUpdateFlag(loc.rolling)
          /\ pc' = "sset.config"
          /\ UNCHANGED <<loc, rets>>
       \/ /\ Fault
          /\ Call("sset", "setflag", "Other")
          /\ UNCHANGED <<c, kube>>
          /\ SsetFails("could not set rolling update flag for the statefulset",
                       ApiError("Other", "sset", "setflag"))
    /\ UNCHANGED <<pg, conf, seen, ret, events, quiet>>

\* lines 322-325: c.updateStatefulSet(desiredSS)
SyncStatefulSet_Update ==
    /\ pc = "sset.update"
    /\ \/ /\ NoFault
          /\ Call("sset", "update", "ok")
          /\ kube' = [kube EXCEPT !.sset = DesiredStatefulSet(c.Postgresql, loc.rolling)]
          /\ c' = [c EXCEPT !.Statefulset = DesiredStatefulSet(c.Postgresql, loc.rolling)]
          /\ pc' = "sset.config"
          /\ UNCHANGED <<loc, rets>>
       \/ /\ Fault
          /\ Call("sset", "update", "Other")
          /\ UNCHANGED <<c, kube>>
          /\ SsetFails("could not update statefulset", ApiError("Other", "sset", "update"))
    /\ UNCHANGED <<pg, conf, seen, ret, events, quiet>>

\* lines 326-330: c.replaceStatefulSet(desiredSS) deletes the statefulset,
\* leaving its pods, ...
SyncStatefulSet_ReplaceDelete ==
    /\ pc = "sset.replace"
    /\ \/ /\ NoFault
          /\ Call("sset", "delete", "ok")
          /\ kube' = [kube EXCEPT !.sset = Absent, !.orphans = kube.pods]
          /\ c' = [c EXCEPT !.Statefulset = Absent]
          /\ pc' = "sset.replace.create"
          /\ UNCHANGED <<loc, rets>>
       \/ /\ Fault
          /\ Call("sset", "delete", "Other")
          /\ UNCHANGED <<c, kube>>
          /\ SsetFails("could not replace statefulset", ApiError("Other", "sset", "delete"))
    /\ UNCHANGED <<pg, conf, seen, ret, events, quiet>>

\* ... and creates it from the desired definition
SyncStatefulSet_ReplaceCreate ==
    /\ pc = "sset.replace.create"
    /\ \/ /\ NoFault
          /\ Call("sset", "create", "ok")
          /\ kube' = [kube EXCEPT !.sset = DesiredStatefulSet(c.Postgresql, loc.rolling)]
          /\ c' = [c EXCEPT !.Statefulset = DesiredStatefulSet(c.Postgresql, loc.rolling)]
          /\ pc' = "sset.config"
          /\ UNCHANGED <<loc, rets>>
       \/ /\ Fault
          /\ Call("sset", "create", "Other")
          /\ UNCHANGED <<c, kube>>
          /\ SsetFails("could not replace statefulset", ApiError("Other", "sset", "create"))
    /\ UNCHANGED <<pg, conf, seen, ret, events, quiet>>

\* lines 343-353: after the configuration step
AfterConfiguration ==
    IF loc.rolling
    THEN pc' = "sset.recreate" /\ UNCHANGED <<loc, rets>>
    ELSE StepReturns("sset", NoError)

\* checkAndSetGlobalPostgreSQLConfiguration, lines 358-383
CheckAndSetConfiguration_ListPods ==
    /\ pc = "sset.config"
    /\ IF ~c.Postgresql.params
       THEN /\ trace' = trace
            /\ NoFault
            /\ AfterConfiguration
       ELSE \/ /\ NoFault
               /\ Call("pod", "list", IF kube.pods THEN "some" ELSE "none")
               /\ IF kube.pods
                  THEN pc' = "sset.patroni" /\ UNCHANGED <<loc, rets>>
                  ELSE SsetFails("could not set cluster-wide PostgreSQL configuration options",
                                 NewError("could not call Patroni API: cluster has no pods"))
            \/ /\ Fault
               /\ Call("pod", "list", "Other")
               /\ SsetFails("could not set cluster-wide PostgreSQL configuration options",
                            ApiError("Other", "pod", "list"))
    /\ UNCHANGED <<c, kube, pg, conf, seen, ret, events, quiet>>

\* lines 384-396: some pod takes the parameters, or every pod refuses
\* the refusal of every pod is logged and the step goes on
CheckAndSetConfiguration_PatroniLogged ==
    /\ pc = "sset.patroni"
    /\ \/ /\ NoFault
          /\ Call("patroni", "set", "ok")
       \/ /\ Fault
          /\ Call("patroni", "set", "Other")
    /\ AfterConfiguration
    /\ UNCHANGED <<c, kube, pg, conf, seen, ret, events, quiet>>

CheckAndSetConfiguration_Patroni ==
    /\ pc = "sset.patroni"
    /\ \/ /\ NoFault
          /\ Call("patroni", "set", "ok")
          /\ AfterConfiguration
       \/ /\ Fault
          /\ Call("patroni", "set", "Other")
          /\ SsetFails("could not set cluster-wide PostgreSQL configuration options",
                       NewError("could not reach Patroni API"))
    /\ UNCHANGED <<c, kube, pg, conf, seen, ret, events, quiet>>

\* lines 345-348
SyncStatefulSet_RecreatePods ==
    /\ pc = "sset.recreate"
    /\ \/ /\ NoFault
          /\ Call("pod", "recreate", "ok")
          /\ kube' = [kube EXCEPT !.orphans = FALSE, !.leftover = FALSE]
          /\ pc' = "sset.clear"
          /\ UNCHANGED <<loc, rets>>
       \/ /\ Fault
          /\ Call("pod", "recreate", "Other")
          /\ kube' = kube
          /\ SsetFails("could not recreate pods", ApiError("Other", "pod", "recreate"))
    /\ UNCHANGED <<c, pg, conf, seen, ret, events, quiet>>

\* a failure to clear the flag ends the step
SyncStatefulSet_ClearFlagFatal ==
    /\ pc = "sset.clear"
    /\ \/ /\ NoFault
          /\ Call("sset", "clearflag", "ok")
          /\ ApplyRollingUpdateFlag(FALSE)
          /\ StepReturns("sset", NoError)
       \/ /\ Fault
          /\ Call("sset", "clearflag", "Other")
          /\ UNCHANGED <<c, kube>>
          /\ SsetFails("could not clear rolling update for the statefulset",
                       ApiError("Other", "sset", "clearflag"))
    /\ UNCHANGED <<pg, conf, seen, ret, events, quiet>>

\* lines 349-353: a failure to clear the flag is logged
SyncStatefulSet_ClearFlag ==
    /\ pc = "sset.clear"
    /\ \/ /\ NoFault
          /\ Call("sset", "clearflag", "ok")
          /\ ApplyRollingUpdateFlag(FALSE)
       \/ /\ Fault
          /\ Call("sset", "clearflag", "Other")
          /\ UNCHANGED <<c, kube>>
    /\ StepReturns("sset", NoError)
    /\ UNCHANGED <<pg, conf, seen, ret, events, quiet>>

(***************************************************************************)
(* syncPodDisruptionBudget (lines 212-252).                                *)
(***************************************************************************)
\* lines 217-236
SyncPodDisruptionBudget_Get ==
    /\ pc = "pdb"
    /\ \/ /\ kube.pdb.here
          /\ NoFault
          /\ Call("pdb", "get", "ok")
          /\ c' = [c EXCEPT !.PodDisruptionBudget = kube.pdb]
          /\ IF SameDefinition(kube.pdb, Generate(c.Postgresql))
             THEN StepReturns("pdb", NoError)
             ELSE pc' = "pdb.update" /\ UNCHANGED <<loc, rets>>
       \/ /\ ~kube.pdb.here
          /\ NoFault
          /\ Call("pdb", "get", "NotFound")
          /\ c' = [c EXCEPT !.PodDisruptionBudget = Absent]
          /\ pc' = "pdb.create"
          /\ UNCHANGED <<loc, rets>>
       \/ /\ Fault
          /\ Call("pdb", "get", "Other")
          /\ c' = c
          /\ StepReturns("pdb", Errorf("could not get pod disruption budget",
                                       ApiError("Other", "pdb", "get")))
    /\ UNCHANGED <<kube, pg, conf, seen, ret, events, quiet>>

\* lines 222-228: c.updatePodDisruptionBudget(newPDB); its error goes back as it is
SyncPodDisruptionBudget_Update ==
    /\ pc = "pdb.update"
    /\ \/ /\ NoFault
          /\ Call("pdb", "update", "ok")
          /\ kube' = [kube EXCEPT !.pdb = Generate(c.Postgresql)]
          /\ c' = [c EXCEPT !.PodDisruptionBudget = Generate(c.Postgresql)]
          /\ StepReturns("pdb", NoError)
       \/ /\ Fault
          /\ Call("pdb", "update", "Other")
          /\ UNCHANGED <<c, kube>>
          /\ StepReturns("pdb", ApiError("Other", "pdb", "update"))
    /\ UNCHANGED <<pg, conf, seen, ret, events, quiet>>

\* lines 238-242 and 248-251
SyncPodDisruptionBudget_Create ==
    /\ pc = "pdb.create"
    /\ \/ /\ NoFault /\ NoEvent
          /\ Call("pdb", "create", "ok")
          /\ kube' = [kube EXCEPT !.pdb = Generate(c.Postgresql)]
          /\ c' = [c EXCEPT !.PodDisruptionBudget = Generate(c.Postgresql)]
          /\ StepReturns("pdb", NoError)
       \/ /\ NoFault /\ Event
          /\ Call("pdb", "create", "AlreadyExists")
          /\ kube' = [kube EXCEPT !.pdb = Foreign]
          /\ c' = c
          /\ pc' = "pdb.fetch"
          /\ UNCHANGED <<loc, rets>>
       \/ /\ Fault /\ NoEvent
          /\ Call("pdb", "create", "Other")
          /\ UNCHANGED <<c, kube>>
          /\ StepReturns("pdb", Errorf("could not create pod disruption budget",
                                       ApiError("Other", "pdb", "create")))
    /\ UNCHANGED <<pg, conf, seen, ret, quiet>>

\* lines 243-251: the error of the fetch is not part of the one returned
SyncPodDisruptionBudget_Fetch ==
    /\ pc = "pdb.fetch"
    /\ \/ /\ NoFault
          /\ Call("pdb", "get", "ok")
          /\ c' = [c EXCEPT !.PodDisruptionBudget = kube.pdb]
          /\ StepReturns("pdb", NoError)
       \/ /\ Fault
          /\ Call("pdb", "get", "Other")
          /\ c' = c
          /\ StepReturns("pdb", NewError("could not fetch existing pod disruption budget"))
    /\ UNCHANGED <<kube, pg, conf, seen, ret, events, quiet>>

(***************************************************************************)
(* syncLogicalBackupJob (lines 570-621).                                   *)
(***************************************************************************)
JobFails(msg, e) == StepReturns("backup", Errorf(msg, e))

\* lines 581-606
SyncLogicalBackupJob_Get ==
    /\ pc = "backup"
    /\ \/ /\ kube.job.here
          /\ Call("job", "get", "ok")
          /\ \/ /\ NoFault
                /\ IF SameDefinition(kube.job, Generate(c.Postgresql))
                   THEN StepReturns("backup", NoError)
                   ELSE pc' = "backup.patch" /\ UNCHANGED <<loc, rets>>
             \/ /\ Fault
                /\ JobFails("could not generate the desired logical backup job state",
                            NewError("invalid spec"))
       \/ /\ ~kube.job.here
          /\ NoFault
          /\ Call("job", "get", "NotFound")
          /\ pc' = "backup.create"
          /\ UNCHANGED <<loc, rets>>
       \/ /\ Fault
          /\ Call("job", "get", "Other")
          /\ JobFails("could not get logical backp job", ApiError("Other", "job", "get"))
    /\ UNCHANGED <<c, kube, pg, conf, seen, ret, events, quiet>>

\* lines 594-599: c.patchLogicalBackupJob(desiredJob)
SyncLogicalBackupJob_Patch ==
    /\ pc = "backup.patch"
    /\ \/ /\ NoFault
          /\ Call("job", "patch", "ok")
          /\ kube' = [kube EXCEPT !.job = Generate(c.Postgresql)]
          /\ StepReturns("backup", NoError)
       \/ /\ Fault
          /\ Call("job", "patch", "Other")
          /\ kube' = kube
          /\ JobFails("could not update logical backup job to match desired state",
                      ApiError("Other", "job", "patch"))
    /\ UNCHANGED <<c, pg, conf, seen, ret, events, quiet>>

\* lines 608-614
SyncLogicalBackupJob_Create ==
    /\ pc = "backup.create"
    /\ \/ /\ NoFault /\ NoEvent
          /\ Call("job", "create", "ok")
          /\ kube' = [kube EXCEPT !.job = Generate(c.Postgresql)]
          /\ StepReturns("backup", NoError)
       \/ /\ NoFault /\ Event
          /\ Call("job", "create", "AlreadyExists")
          /\ kube' = [kube EXCEPT !.job = Foreign]
          /\ pc' = "backup.fetch"
          /\ UNCHANGED <<loc, rets>>
       \/ /\ Fault /\ NoEvent
          /\ Call("job", "create", "Other")
          /\ kube' = kube
          /\ JobFails("could not create missing logical backup job",
                      ApiError("Other", "job", "create"))
    /\ UNCHANGED <<c, pg, conf, seen, ret, quiet>>

\* lines 615-620
SyncLogicalBackupJob_Fetch ==
    /\ pc = "backup.fetch"
    /\ \/ /\ NoFault
          /\ Call("job", "get", "ok")
          /\ StepReturns("backup", NoError)
       \/ /\ Fault
          /\ Call("job", "get", "Other")
          /\ JobFails("could not fetch existing logical backup job",
                      ApiError("Other", "job", "get"))
    /\ UNCHANGED <<c, kube, pg, conf, seen, ret, events, quiet>>

(***************************************************************************)
(* The database connection of the role and database reconcilers.           *)
(***************************************************************************)
\* c.initDbConn()
InitDbConn == pg' = [pg EXCEPT !.conn = TRUE]

\* lines 469-473: the close error, with the error in flight when there is one
CloseError(err2, err) ==
    IF err = NoError
    THEN Errorf("could not close database connection", err2)
    ELSE [class |-> "Other", origin |-> err2.origin,
          ctx |-> <<"could not close database connection">> \o err2.ctx
                  \o <<"prior error">> \o err.ctx \o err.origin]

(***************************************************************************)
(* syncRoles (lines 454-501).                                              *)
(***************************************************************************)
\* lines 481-488: the pool user joins the declared accounts
WithConnPoolUser(cl) ==
    IF NeedConnectionPool(cl.Postgresql)
    THEN LET connPoolUser == Lookup(cl.systemUsers, ConnectionPoolUserKeyName)
         IN  IF connPoolUser.Name \in DOMAIN cl.pgUsers THEN cl
             ELSE [cl EXCEPT !.pgUsers = (connPoolUser.Name :> connPoolUser) @@ @]
    ELSE cl

\* lines 477-484: userNames
UserNames(cl) == {cl.pgUsers[n].Name : n \in DOMAIN cl.pgUsers}

\* lines 462-488
SyncRoles_InitDbConn ==
    /\ pc = "roles"
    /\ \/ /\ NoFault
          /\ Call("db", "open", "ok")
          /\ InitDbConn
          /\ c' = WithConnPoolUser(c)
          /\ pc' = "roles.read"
          /\ UNCHANGED <<loc, rets>>
       \/ /\ Fault
          /\ Call("db", "open", "Other")
          /\ UNCHANGED <<c, pg>>
          /\ StepReturns("roles", Errorf("could not init db connection",
                                         ApiError("Other", "db", "open")))
    /\ UNCHANGED <<kube, conf, seen, ret, events, quiet>>

\* the failed read returns before the close is deferred
SyncRoles_ReadUndeferred ==
    /\ pc = "roles.read"
    /\ \/ /\ NoFault
          /\ Call("db", "readUsers", "ok")
          /\ pc' = "roles.exec"
          /\ UNCHANGED <<loc, rets>>
       \/ /\ Fault
          /\ Call("db", "readUsers", "Other")
          /\ StepReturns("roles", Errorf("error getting users from the database",
                                         ApiError("Other", "db", "readUsers")))
    /\ UNCHANGED <<c, kube, pg, conf, seen, ret, events, quiet>>

\* lines 490-493
SyncRoles_Read ==
    /\ pc = "roles.read"
    /\ \/ /\ NoFault
          /\ Call("db", "readUsers", "ok")
          /\ pc' = "roles.exec"
          /\ loc' = loc
       \/ /\ Fault
          /\ Call("db", "readUsers", "Other")
          /\ pc' = "roles.close"
          /\ loc' = [loc EXCEPT !.ferr = Errorf("error getting users from the database",
                                                ApiError("Other", "db", "readUsers"))]
    /\ UNCHANGED <<c, kube, pg, conf, rets, seen, ret, events, quiet>>

\* lines 495-500
SyncRoles_Execute ==
    /\ pc = "roles.exec"
    /\ \/ /\ NoFault
          /\ Call("db", "syncUsers", "ok")
          /\ pg' = [pg EXCEPT !.roles = @ \cup UserNames(c)]
          /\ loc' = loc
       \/ /\ Fault
          /\ Call("db", "syncUsers", "Other")
          /\ pg' = pg
          /\ loc' = [loc EXCEPT !.ferr = Errorf("error executing sync statements",
                                                ApiError("Other", "db", "syncUsers"))]
    /\ pc' = "roles.close"
    /\ UNCHANGED <<c, kube, conf, rets, seen, ret, events, quiet>>

\* lines 467-475, the deferred function: what a failed close leaves of the
\* connection is not known
SyncRoles_Close ==
    /\ pc = "roles.close"
    /\ \/ /\ NoFault
          /\ Call("db", "close", "ok")
          /\ pg' = [pg EXCEPT !.conn = FALSE]
          /\ StepReturns("roles", loc.ferr)
       \/ /\ Fault
          /\ Call("db", "close", "Other")
          /\ \E open \in BOOLEAN : pg' = [pg EXCEPT !.conn = open]
          /\ StepReturns("roles", CloseError(ApiError("Other", "db", "close"), loc.ferr))
    /\ UNCHANGED <<c, kube, conf, seen, ret, events, quiet>>

(***************************************************************************)
(* syncDatabases (lines 523-568).                                          *)
(***************************************************************************)
\* lines 543-550
CreateDatabases(declared, current) == {d \in DOMAIN declared : d \notin DOMAIN current}

\* the owners are not compared
AlterOwnerDatabasesAny(declared, current) ==
    {d \in DOMAIN declared : d \in DOMAIN current}

AlterOwnerDatabases(declared, current) ==
    {d \in DOMAIN declared : d \in DOMAIN current /\ current[d] # declared[d]}

\* lines 552-567: what is left to do
DatabasesNext(create, alter) ==
    IF create # {} THEN "databases.create"
    ELSE IF alter # {} THEN "databases.alter"
    ELSE "databases.close"

\* lines 529-531: the error of the connection attempt is not part of the one returned
SyncDatabases_InitDbConn ==
    /\ pc = "databases"
    /\ \/ /\ NoFault
          /\ Call("db", "open", "ok")
          /\ InitDbConn
          /\ pc' = "databases.get"
          /\ UNCHANGED <<loc, rets>>
       \/ /\ Fault
          /\ Call("db", "open", "Other")
          /\ pg' = pg
          /\ StepReturns("databases", NewError("could not init database connection"))
    /\ UNCHANGED <<c, kube, conf, seen, ret, events, quiet>>

\* lines 538-554
SyncDatabases_Get ==
    /\ pc = "databases.get"
    /\ \/ /\ NoFault
          /\ CallOn("db", "getDatabases", "ok", pg.databases)
          /\ LET create == CreateDatabases(Databases(c.Postgresql), pg.databases)
                 alter == AlterOwnerDatabases(Databases(c.Postgresql), pg.databases)
             IN  /\ loc' = [loc EXCEPT !.create = create, !.alter = alter]
                 /\ pc' = DatabasesNext(create, alter)
       \/ /\ Fault
          /\ Call("db", "getDatabases", "Other")
          /\ loc' = [loc EXCEPT !.ferr = Errorf("could not get current databases",
                                                ApiError("Other", "db", "getDatabases"))]
          /\ pc' = "databases.close"
    /\ UNCHANGED <<c, kube, pg, conf, rets, seen, ret, events, quiet>>

\* lines 556-560: the next database of the map, in any order
SyncDatabases_Create ==
    /\ pc = "databases.create"
    /\ \E d \in loc.create :
         \/ /\ NoFault
            /\ CallOn("db", "createDatabase", "ok", d)
            /\ pg' = [pg EXCEPT !.databases = (d :> Databases(c.Postgresql)[d]) @@ @]
            /\ loc' = [loc EXCEPT !.create = @ \ {d}]
            /\ pc' = DatabasesNext(loc.create \ {d}, loc.alter)
         \/ /\ Fault
            /\ CallOn("db", "createDatabase", "Other", d)
            /\ pg' = pg
            /\ loc' = [loc EXCEPT !.ferr = ApiError("Other", "db", "createDatabase")]
            /\ pc' = "databases.close"
    /\ UNCHANGED <<c, kube, conf, rets, seen, ret, events, quiet>>

\* lines 561-565
SyncDatabases_Alter ==
    /\ pc = "databases.alter"
    /\ \E d \in loc.alter :
         \/ /\ NoFault
            /\ CallOn("db", "alterOwner", "ok", d)
            /\ pg' = [pg EXCEPT !.databases = (d :> Databases(c.Postgresql)[d]) @@ @]
            /\ loc' = [loc EXCEPT !.alter = @ \ {d}]
            /\ pc' = DatabasesNext({}, loc.alter \ {d})
         \/ /\ Fault
            /\ CallOn("db", "alterOwner", "Other", d)
            /\ pg' = pg
            /\ loc' = [loc EXCEPT !.ferr = ApiError("Other", "db", "alterOwner")]
            /\ pc' = "databases.close"
    /\ UNCHANGED <<c, kube, conf, rets, seen, ret, events, quiet>>

\* lines 532-536, the deferred function: a close error is logged
SyncDatabases_Close ==
    /\ pc = "databases.close"
    /\ \/ /\ NoFault
          /\ Call("db", "close", "ok")
          /\ pg' = [pg EXCEPT !.conn = FALSE]
       \/ /\ Fault
          /\ Call("db", "close", "Other")
          /\ \E open \in BOOLEAN : pg' = [pg EXCEPT !.conn = open]
    /\ StepReturns("databases", loc.ferr)
    /\ UNCHANGED <<c, kube, conf, seen, ret, events, quiet>>

(***************************************************************************)
(* syncConnectionPool (lines 623-691) and syncConnectionPoolWorker         *)
(* (lines 697-783).                                                        *)
(***************************************************************************)
\* c.needConnectionPoolWorker(spec)
NeedConnectionPoolWorker(m) == m.pool

\* the installed flag is not looked at
LookupNeededIfNew(oldNeedConnPool, cl) == ~oldNeedConnPool

\* line 641
LookupNeeded(oldNeedConnPool, cl) ==
    ~oldNeedConnPool \/ ~cl.ConnectionPool.LookupFunction

\* lines 680-682
BundleNotEmpty(cl) ==
    cl.ConnectionPool.set
    /\ (cl.ConnectionPool.Deployment.here \/ cl.ConnectionPool.Service.here)

\* the teardown looks at the bundle only, not at what the old spec required
PoolEntryBundleOnly(oldNeedConnPool, newNeedConnPool, cl) ==
    IF newNeedConnPool
    THEN IF LookupNeeded(oldNeedConnPool, cl) THEN "pool.lookup" ELSE "pool.deployment"
    ELSE IF BundleNotEmpty(cl) THEN "pool.delete"
    ELSE ""

\* lines 631-688: where the reconciler goes on entry; "" is line 690
PoolEntry(oldNeedConnPool, newNeedConnPool, cl) ==
    IF newNeedConnPool
    THEN IF LookupNeeded(oldNeedConnPool, cl) THEN "pool.lookup" ELSE "pool.deployment"
    ELSE IF oldNeedConnPool THEN "pool.delete"
    ELSE IF BundleNotEmpty(cl) THEN "pool.delete"
    ELSE ""

\* lines 624-630
SyncConnectionPool_Enter ==
    /\ pc = "pool"
    /\ c' = [c EXCEPT !.ConnectionPool.set = TRUE]
    /\ trace' = trace
    /\ LET to == PoolEntry(NeedConnectionPoolWorker(loc.oldSpec),
                           NeedConnectionPoolWorker(c.Postgresql), c')
       IN  IF to = "" THEN StepReturns("pool", NoError)
           ELSE pc' = to /\ UNCHANGED <<loc, rets>>
    /\ UNCHANGED <<kube, pg, conf, seen, ret, faults, events, quiet>>

\* lines 660-662: lookup(schema, user), which marks the function installed
SyncConnectionPool_Lookup ==
    /\ pc = "pool.lookup"
    /\ \/ /\ NoFault
          /\ Call("db", "lookup", "ok")
          /\ pg' = [pg EXCEPT !.lookup = TRUE]
          /\ c' = [c EXCEPT !.ConnectionPool.LookupFunction = TRUE]
          /\ pc' = "pool.deployment"
          /\ UNCHANGED <<loc, rets>>
       \/ /\ Fault
          /\ Call("db", "lookup", "Other")
          /\ UNCHANGED <<c, pg>>
          /\ StepReturns("pool", ApiError("Other", "db", "lookup"))
    /\ UNCHANGED <<kube, conf, seen, ret, events, quiet>>

\* c.needSyncConnPoolSpecs(oldConnPool, newConnPool): the pool sections differ
NeedSyncConnPoolSpecs(old, new) == old.rev # new.rev \/ old.pool # new.pool

\* c.needSyncConnPoolDefaults(newConnPool, deployment)
NeedSyncConnPoolDefaults(new, deployment) == ~SameDefinition(deployment, Generate(new))

\* lines 698-702, 721-732
SyncConnectionPoolWorker_GetDeployment ==
    /\ pc = "pool.deployment"
    /\ \/ /\ kube.deployment.here
          /\ NoFault
          /\ Call("deployment", "get", "ok")
          /\ c' = [c EXCEPT !.ConnectionPool.Deployment = kube.deployment]
          /\ pc' = IF NeedSyncConnPoolSpecs(loc.oldSpec, c.Postgresql)
                      \/ NeedSyncConnPoolDefaults(c.Postgresql, kube.deployment)
                   THEN "pool.deployment.update"
                   ELSE "pool.service"
          /\ UNCHANGED <<loc, rets>>
       \/ /\ ~kube.deployment.here
          /\ NoFault
          /\ Call("deployment", "get", "NotFound")
          /\ c' = c
          /\ pc' = "pool.deployment.create"
          /\ UNCHANGED <<loc, rets>>
       \/ /\ Fault
          /\ Call("deployment", "get", "Other")
          /\ c' = c
          /\ StepReturns("pool", Errorf("could not get connection pool deployment to sync",
                                        ApiError("Other", "deployment", "get")))
    /\ UNCHANGED <<kube, pg, conf, seen, ret, events, quiet>>

\* lines 706-720: the error of the create goes back as it is
SyncConnectionPoolWorker_CreateDeployment ==
    /\ pc = "pool.deployment.create"
    /\ \/ /\ NoFault /\ NoEvent
          /\ Call("deployment", "create", "ok")
          /\ kube' = [kube EXCEPT !.deployment = Generate(c.Postgresql)]
          /\ c' = [c EXCEPT !.ConnectionPool.Deployment = Generate(c.Postgresql)]
          /\ pc' = "pool.service"
          /\ UNCHANGED <<loc, rets>>
       \/ /\ NoFault /\ Event
          /\ Call("deployment", "create", "AlreadyExists")
          /\ kube' = [kube EXCEPT !.deployment = Foreign]
          /\ c' = c
          /\ StepReturns("pool", ApiError("AlreadyExists", "deployment", "create"))
       \/ /\ Fault /\ NoEvent
          /\ Call("deployment", "create", "Other")
          /\ UNCHANGED <<c, kube>>
          /\ StepReturns("pool", ApiError("Other", "deployment", "create"))
       \/ /\ Fault /\ NoEvent
          /\ trace' = trace
          /\ UNCHANGED <<c, kube>>
          /\ StepReturns("pool", Errorf("could not generate deployment for connection pool",
                                        NewError("invalid spec")))
    /\ UNCHANGED <<pg, conf, seen, ret, quiet>>

\* lines 736-753: after the update the worker returns without looking at the service
SyncConnectionPoolWorker_UpdateDeployment ==
    /\ pc = "pool.deployment.update"
    /\ \/ /\ NoFault
          /\ Call("deployment", "update", "ok")
          /\ kube' = [kube EXCEPT !.deployment = Generate(c.Postgresql)]
          /\ c' = [c EXCEPT !.ConnectionPool.Deployment = Generate(c.Postgresql)]
          /\ StepReturns("pool", NoError)
       \/ /\ Fault
          /\ Call("deployment", "update", "Other")
          /\ UNCHANGED <<c, kube>>
          /\ StepReturns("pool", ApiError("Other", "deployment", "update"))
       \/ /\ Fault
          /\ trace' = trace
          /\ UNCHANGED <<c, kube>>
          /\ StepReturns("pool", Errorf("could not generate deployment for connection pool",
                                        NewError("invalid spec")))
    /\ UNCHANGED <<pg, conf, seen, ret, events, quiet>>

\* lines 757-761, 775-780
SyncConnectionPoolWorker_GetService ==
    /\ pc = "pool.service"
    /\ \/ /\ kube.poolsvc.here
          /\ NoFault
          /\ Call("poolsvc", "get", "ok")
          /\ c' = [c EXCEPT !.ConnectionPool.Service = kube.poolsvc]
          /\ StepReturns("pool", NoError)
       \/ /\ ~kube.poolsvc.here
          /\ NoFault
          /\ Call("poolsvc", "get", "NotFound")
          /\ c' = c
          /\ pc' = "pool.service.create"
          /\ UNCHANGED <<loc, rets>>
       \/ /\ Fault
          /\ Call("poolsvc", "get", "Other")
          /\ c' = c
          /\ StepReturns("pool", Errorf("could not get connection pool service to sync",
                                        ApiError("Other", "poolsvc", "get")))
    /\ UNCHANGED <<kube, pg, conf, seen, ret, events, quiet>>

\* lines 765-774
SyncConnectionPoolWorker_CreateService ==
    /\ pc = "pool.service.create"
    /\ \/ /\ NoFault /\ NoEvent
          /\ Call("poolsvc", "create", "ok")
          /\ kube' = [kube EXCEPT !.poolsvc = Generate(c.Postgresql)]
          /\ c' = [c EXCEPT !.ConnectionPool.Service = Generate(c.Postgresql)]
          /\ StepReturns("pool", NoError)
       \/ /\ NoFault /\ Event
          /\ Call("poolsvc", "create", "AlreadyExists")
          /\ kube' = [kube EXCEPT !.poolsvc = Foreign]
          /\ c' = c
          /\ StepReturns("pool", ApiError("AlreadyExists", "poolsvc", "create"))
       \/ /\ Fault /\ NoEvent
          /\ Call("poolsvc", "create", "Other")
          /\ UNCHANGED <<c, kube>>
          /\ StepReturns("pool", ApiError("Other", "poolsvc", "create"))
    /\ UNCHANGED <<pg, conf, seen, ret, quiet>>

\* c.deleteConnectionPool(), first half: the deployment; lines 673-675 and
\* 684-686 log its error
DeleteConnectionPool_Deployment ==
    /\ pc = "pool.delete"
    /\ \/ /\ NoFault
          /\ Call("deployment", "delete", IF kube.deployment.here THEN "ok" ELSE "NotFound")
          /\ kube' = [kube EXCEPT !.deployment = Absent]
          /\ pc' = "pool.delete.service"
          /\ UNCHANGED <<loc, rets>>
       \/ /\ Fault
          /\ Call("deployment", "delete", "Other")
          /\ kube' = kube
          /\ StepReturns("pool", NoError)
    /\ UNCHANGED <<c, pg, conf, seen, ret, events, quiet>>

\* c.deleteConnectionPool(), second half: the service, then the bundle
DeleteConnectionPool_Service ==
    /\ pc = "pool.delete.service"
    /\ \/ /\ NoFault
          /\ Call("poolsvc", "delete", IF kube.poolsvc.here THEN "ok" ELSE "NotFound")
          /\ kube' = [kube EXCEPT !.poolsvc = Absent]
          /\ c' = [c EXCEPT !.ConnectionPool = NoConnectionPool]
       \/ /\ Fault
          /\ Call("poolsvc", "delete", "Other")
          /\ UNCHANGED <<c, kube>>
    /\ StepReturns("pool", NoError)
    /\ UNCHANGED <<pg, conf, seen, ret, events, quiet>>

(***************************************************************************)
(* Other actors, between two passes.                                       *)
(***************************************************************************)
\* the statefulset is deleted and its pods are left behind
External_DeleteStatefulSet ==
    /\ pc = "idle"
    /\ kube.sset.here
    /\ Event
    /\ kube' = [kube EXCEPT !.sset = Absent, !.orphans = kube.pods]
    /\ quiet' = FALSE
    /\ UNCHANGED <<c, pg, conf, pc, loc, trace, rets, seen, ret, faults>>

\* the pool deployment is deleted
External_DeleteDeployment ==
    /\ pc = "idle"
    /\ kube.deployment.here
    /\ Event
    /\ kube' = [kube EXCEPT !.deployment = Absent]
    /\ quiet' = FALSE
    /\ UNCHANGED <<c, pg, conf, pc, loc, trace, rets, seen, ret, faults>>

\* the password of a live secret is changed
External_RotateSecret(n) ==
    /\ pc = "idle"
    /\ kube.secrets[n].here
    /\ Event
    /\ kube' = [kube EXCEPT !.secrets[n].password = OtherPassword(@)]
    /\ quiet' = FALSE
    /\ UNCHANGED <<c, pg, conf, pc, loc, trace, rets, seen, ret, faults>>

\* a secret of the account's name is put in place that belongs to someone else
External_ForeignSecret(n) ==
    /\ pc = "idle"
    /\ Event
    /\ kube' = [kube EXCEPT !.secrets[n] = Secret("other", "p2")]
    /\ quiet' = FALSE
    /\ UNCHANGED <<c, pg, conf, pc, loc, trace, rets, seen, ret, faults>>

\* the password an account is configured with is changed
External_Configure(n) ==
    /\ pc = "idle"
    /\ Event
    /\ conf' = [conf EXCEPT ![n] = OtherPassword(@)]
    /\ quiet' = FALSE
    /\ UNCHANGED <<c, kube, pg, pc, loc, trace, rets, seen, ret, faults>>

\* the accounts other actors touch
Edited == {"app", "infra"}

Next ==
    \/ \E m \in Manifests : Sync_Begin(m)
    \/ InitUsers
    \/ SyncSecrets_Start \/ SyncSecrets_Create \/ SyncSecrets_Get
    \/ SyncSecrets_Update \/ SyncSecrets_Return
    \/ SyncEndpoint_Get \/ SyncEndpoint_Create \/ SyncEndpoint_Fetch
    \/ SyncService_Get \/ SyncService_Update \/ SyncService_Create \/ SyncService_Fetch
    \/ SyncVolumes_Compare \/ SyncVolumes_Resize
    \/ EnforceMinResourceLimits
    \/ SyncStatefulSet_Get \/ SyncStatefulSet_ListPods \/ SyncStatefulSet_Create
    \/ SyncStatefulSet_WaitReady \/ SyncStatefulSet_SetFlag \/ SyncStatefulSet_Update
    \/ SyncStatefulSet_ReplaceDelete \/ SyncStatefulSet_ReplaceCreate
    \/ CheckAndSetConfiguration_ListPods \/ CheckAndSetConfiguration_Patroni
    \/ SyncStatefulSet_RecreatePods \/ SyncStatefulSet_ClearFlag
    \/ SyncPodDisruptionBudget_Get \/ SyncPodDisruptionBudget_Update
    \/ SyncPodDisruptionBudget_Create \/ SyncPodDisruptionBudget_Fetch
    \/ SyncLogicalBackupJob_Get \/ SyncLogicalBackupJob_Patch
    \/ SyncLogicalBackupJob_Create \/ SyncLogicalBackupJob_Fetch
    \/ SyncRoles_InitDbConn \/ SyncRoles_Read \/ SyncRoles_Execute \/ SyncRoles_Close
    \/ SyncDatabases_InitDbConn \/ SyncDatabases_Get \/ SyncDatabases_Create
    \/ SyncDatabases_Alter \/ SyncDatabases_Close
    \/ SyncConnectionPool_Enter \/ SyncConnectionPool_Lookup
    \/ SyncConnectionPoolWorker_GetDeployment \/ SyncConnectionPoolWorker_CreateDeployment
    \/ SyncConnectionPoolWorker_UpdateDeployment
    \/ SyncConnectionPoolWorker_GetService \/ SyncConnectionPoolWorker_CreateService
    \/ DeleteConnectionPool_Deployment \/ DeleteConnectionPool_Service
    \/ Sync_Return
    \/ External_DeleteStatefulSet
    \/ External_DeleteDeployment
    \/ \E n \in Edited : External_RotateSecret(n)
    \/ \E n \in Edited : External_Configure(n)
    \/ \E n \in Edited : External_ForeignSecret(n)

Spec == Init /\ [][Next]_vars

(***************************************************************************)
(* syncDatabases on its own: the reconciler is entered on a database       *)
(* server that holds any map of databases to owners, other actors having   *)
(* created, dropped and handed over databases as they liked.               *)
(***************************************************************************)
DatabaseNames == {"a", "b", "z"}

Owners == {"o1", "o2"}

\* the maps of database to owner a server may hold
LiveDatabases == UNION {[D -> Owners] : D \in SUBSET DatabaseNames}

SyncDatabasesInit ==
    /\ conf = [n \in SecretNames |-> "p1"]
    /\ \E m \in {x \in Manifests : DatabaseWanted(x)} :
         c = [Postgresql |-> m, Status |-> "Creating", mu |-> TRUE, passes |-> 1,
              systemUsers |-> InitSystemUsers(m), pgUsers |-> InitPgUsers(m),
              Secrets |-> {},
              Services |-> [r \in {"master", "replica"} |-> Absent],
              Endpoints |-> [r \in {"master", "replica"} |-> Absent],
              PodDisruptionBudget |-> Absent, Statefulset |-> Absent,
              ConnectionPool |-> NoConnectionPool]
    /\ kube = [secrets |-> [n \in SecretNames |-> NoSecret],
               services |-> [r \in {"master", "replica"} |-> Absent],
               endpoints |-> [r \in {"master", "replica"} |-> Absent],
               pdb |-> Absent, sset |-> Absent, pods |-> FALSE, orphans |-> FALSE, leftover |-> FALSE,
               job |-> Absent,
               deployment |-> Absent, poolsvc |-> Absent, volumes |-> 0]
    /\ \E live \in LiveDatabases :
         pg = [conn |-> FALSE, roles |-> {}, databases |-> live, lookup |-> FALSE]
    /\ pc = "databases"
    /\ loc = [NoLocals EXCEPT !.oldSpec = c.Postgresql]
    /\ trace = <<>>
    /\ rets = <<>>
    /\ seen = NothingSeen
    /\ ret = NoError
    /\ faults = 0
    /\ events = 0
    /\ quiet = FALSE

SyncDatabasesNext ==
    \/ SyncDatabases_InitDbConn \/ SyncDatabases_Get \/ SyncDatabases_Create
    \/ SyncDatabases_Alter \/ SyncDatabases_Close

SyncDatabasesSpec == SyncDatabasesInit /\ [][SyncDatabasesNext]_vars

(***************************************************************************)
(* Properties of a pass, read off the calls it issued (trace) and what its *)
(* steps returned (rets).                                                  *)
(***************************************************************************)
\* an error on which the pass is to stop: any but the raced create of the
\* statefulset
Fatal(r) == r.err # NoError /\ ~(r.step = "sset" /\ ResourceAlreadyExists(r.err))

\* the error Sync returns for the error of a step
Wrapped(r) ==
    [class |-> "Other", origin |-> r.err.origin, ctx |-> <<Context(r.step)>> \o r.err.ctx]

StepOrder ==
    <<"initUsers", "secrets", "services", "volumes", "limits", "sset", "pdb",
      "backup", "roles", "databases", "pool">>

Rank(step) == CHOOSE i \in 1..Len(StepOrder) : StepOrder[i] = step

\* the kinds of call a step issues
KindsOf(step) ==
    CASE step = "secrets"   -> {"secret"}
      [] step = "services"  -> {"endpoint", "service"}
      [] step = "volumes"   -> {"volume"}
      [] step = "sset"      -> {"sset", "pod", "patroni"}
      [] step = "pdb"       -> {"pdb"}
      [] step = "backup"    -> {"job"}
      [] step = "roles"     -> {"db"}
      [] step = "databases" -> {"db"}
      [] step = "pool"      -> {"db", "deployment", "poolsvc"}
      [] OTHER              -> {}

\* the calls issued between the return of step i-1 and that of step i
From(i) == IF i = 1 THEN 1 ELSE rets[i - 1].at + 1

Returned == IF rets = <<>> THEN 0 ELSE rets[Len(rets)].at

LastRank == IF rets = <<>> THEN 0 ELSE Rank(rets[Len(rets)].step)

WorkloadChange(call) ==
    \/ call[1] = "sset" /\ call[2] \in {"create", "update", "delete"}
    \/ call[1] = "pod" /\ call[2] = "recreate"

\* C1: once a step has returned a fatal error it is the last step of the
\* pass, no call is issued after its return, and what Sync returns is that
\* error in the context of the step.
FailStop ==
    \A i \in 1..Len(rets) :
        Fatal(rets[i]) =>
            /\ i = Len(rets)
            /\ Len(trace) = rets[i].at
            /\ pc \in {"defer", "idle"}
            /\ pc = "defer" => loc.retval = Wrapped(rets[i])
            /\ pc = "idle" => ret = Wrapped(rets[i])

\* a pass has ended on the error of its volume step
FailStopReached ==
    /\ pc = "idle"
    /\ rets # <<>>
    /\ rets[Len(rets)].step = "volumes"
    /\ Fatal(rets[Len(rets)])
    /\ ret = Wrapped(rets[Len(rets)])

\* C2: the steps of a pass return in the fixed order, each at most once; the
\* calls issued up to the return of a step are calls of that step, and those
\* issued since the last return are calls of one later step; no statefulset
\* create, update or delete and no pod recreation is issued before the volume
\* step of the pass has returned without error.
Ordering ==
    /\ \A i, j \in 1..Len(rets) : i < j => Rank(rets[i].step) < Rank(rets[j].step)
    /\ \A i \in 1..Len(rets) :
           \A k \in From(i)..rets[i].at : trace[k][1] \in KindsOf(rets[i].step)
    /\ Returned < Len(trace) =>
           \E n \in (LastRank + 1)..Len(StepOrder) :
               \A k \in (Returned + 1)..Len(trace) : trace[k][1] \in KindsOf(StepOrder[n])
    /\ \A k \in 1..Len(trace) :
           WorkloadChange(trace[k]) =>
               \E i \in 1..Len(rets) :
                   /\ rets[i].step = "volumes"
                   /\ rets[i].err = NoError
                   /\ rets[i].at < k

\* a pass in which every step ran and the statefulset was created has ended
OrderingReached ==
    /\ pc = "idle"
    /\ ret = NoError
    /\ Len(rets) = Len(StepOrder)
    /\ \E k \in 1..Len(trace) : trace[k] = <<"sset", "create", "ok">>

\* C3: when a pass has ended the lock is free, and the status is SyncFailed
\* if Sync returned an error and Running if it returned nil.
StatusOnExit ==
    (pc = "idle" /\ rets # <<>>) =>
        /\ ~c.mu
        /\ ret # NoError => c.Status = "SyncFailed"
        /\ ret = NoError => c.Status = "Running"

\* a pass has ended on an error of its connection pool step
StatusOnExitReached ==
    /\ pc = "idle"
    /\ rets # <<>>
    /\ rets[Len(rets)].step = "pool"
    /\ ret # NoError
    /\ c.Status = "SyncFailed"

\* the calls of step i that are the given call
Issued(i, call) == {k \in From(i)..rets[i].at : trace[k] = call}

\* C4: a statefulset create that finds the statefulset in place does not end
\* the pass: the workload step is not its last step, and the pass goes on
\* with the pod disruption budget.
SsetRaceTolerated ==
    \A i \in 1..Len(rets) :
        (rets[i].step = "sset" /\ Issued(i, <<"sset", "create", "AlreadyExists">>) # {}) =>
            /\ i = Len(rets) => pc = "pdb"
            /\ i < Len(rets) => rets[i + 1].step = "pdb"

StoreKinds == {"secret", "service", "endpoint", "pdb", "sset", "job", "deployment", "poolsvc"}

\* a call that creates, updates or deletes an object of a resource store
Mutating(call) ==
    /\ call[1] \in StoreKinds
    /\ call[2] \in {"create", "update", "patch", "setflag", "clearflag", "delete"}

Differs(u) ==
    /\ seen[u].got.here
    /\ seen[u].got.username = u
    /\ seen[u].user.Password # seen[u].got.password

\* C6: for an account of Infrastructure origin in that case, one update of
\* its secret is issued; once the account is done the live secret holds the
\* configured password and the registry entry is what it was.
InfrastructureMerge ==
    pc # "idle" =>
        \A u \in SecretNames :
            (Differs(u) /\ seen[u].user.Origin = RoleOriginInfrastructure) =>
                /\ (seen[u].done \/ pc # "secrets.update") => seen[u].updates = 1
                /\ seen[u].done =>
                       /\ kube.secrets[u].password = seen[u].user.Password
                       /\ PwdUser(c, u) = seen[u].user

InfrastructureMergeReached ==
    /\ pc # "idle"
    /\ \E u \in SecretNames :
           /\ Differs(u)
           /\ seen[u].user.Origin = RoleOriginInfrastructure
           /\ seen[u].done
           /\ seen[u].updates = 1

\* C7: for an account of another origin in that case, no update of its
\* secret is issued; once the account is done the live secret is what was
\* fetched and the registry holds the password of the secret.
ManifestMerge ==
    pc # "idle" =>
        \A u \in SecretNames :
            (Differs(u) /\ seen[u].user.Origin # RoleOriginInfrastructure) =>
                /\ seen[u].updates = 0
                /\ ~(pc = "secrets.update" /\ loc.cur = u)
                /\ seen[u].done =>
                       /\ kube.secrets[u] = seen[u].got
                       /\ PwdUser(c, u).Password = seen[u].got.password

ManifestMergeReached ==
    /\ pc # "idle"
    /\ \E u \in SecretNames :
           /\ Differs(u)
           /\ seen[u].user.Origin # RoleOriginInfrastructure
           /\ seen[u].done
           /\ PwdUser(c, u).Password = seen[u].got.password

\* step i is a workload step that found no statefulset and then listed pods
FoundOrphans(i) ==
    /\ rets[i].step = "sset"
    /\ From(i) + 1 <= rets[i].at
    /\ trace[From(i)] = <<"sset", "get", "NotFound">>
    /\ trace[From(i) + 1] = <<"pod", "list", "some">>

\* C8: in a workload step that found pods but no statefulset, from the
\* configuration step until the flag is cleared the live statefulset bears
\* the rolling-update flag; if the step returns success it has set the flag,
\* then recreated the pods, and has cleared the flag only after that.
RollingAfterRecreation ==
    /\ (pc \in {"sset.config", "sset.patroni", "sset.recreate", "sset.clear"} /\ loc.pods) =>
           kube.sset.here /\ kube.sset.flag
    /\ \A i \in 1..Len(rets) :
           (FoundOrphans(i) /\ rets[i].err = NoError) =>
               \E f, r \in From(i)..rets[i].at :
                   /\ f < r
                   /\ trace[f] = <<"sset", "setflag", "ok">>
                   /\ trace[r] = <<"pod", "recreate", "ok">>
                   /\ \A k \in From(i)..rets[i].at :
                          (trace[k][1] = "sset" /\ trace[k][2] = "clearflag") => k > r

\* such a step has returned success, the flag cleared
RollingAfterRecreationReached ==
    \E i \in 1..Len(rets) :
        /\ FoundOrphans(i)
        /\ rets[i].err = NoError
        /\ Issued(i, <<"sset", "clearflag", "ok">>) # {}
        /\ pc # "idle" => ~kube.sset.flag

\* the positions of a workload step at which it updates or replaces the
\* statefulset or recreates the pods
Restarting ==
    pc \in {"sset.update", "sset.replace", "sset.replace.create", "sset.recreate", "sset.clear"}

\* C9 as stated: with the statefulset present and matching and no pods left
\* without their statefulset, the workload step neither updates or replaces
\* the statefulset nor recreates the pods.
NoNeedlessRestartWithoutOrphans ==
    (loc.present /\ loc.match /\ ~kube.orphans) => ~Restarting

\* C9: with the statefulset present and matching and no rolling update
\* pending on the live object or the cached one, the workload step neither
\* updates or replaces the statefulset nor recreates the pods.
NoNeedlessRestart ==
    (loc.present /\ loc.match /\ ~loc.pending) => ~Restarting

\* such a workload step is past the comparison
NoNeedlessRestartReached ==
    /\ pc \in {"sset.config", "sset.patroni"}
    /\ loc.present /\ loc.match /\ ~loc.pending

PoolWorker ==
    {"pool.deployment", "pool.deployment.create", "pool.deployment.update",
     "pool.service", "pool.service.create"}

\* the installs of the lookup function and the calls of the dependent
\* resources' sync, by position in the pass
LookupCalls == {k \in 1..Len(trace) : trace[k][1] = "db" /\ trace[k][2] = "lookup"}

PoolSyncCalls ==
    {k \in 1..Len(trace) : /\ trace[k][1] \in {"deployment", "poolsvc"}
                           /\ trace[k][2] \in {"get", "create", "update"}}

\* C10: the lookup function is installed only for a spec that requires the
\* pool and only if the old spec did not or the bundle's flag is not set;
\* the dependent resources are synced only for a spec that requires the
\* pool, and without an install only if the old spec required the pool and
\* the flag is set; an install comes before every call of that sync; after a
\* failed install no such call is issued and Sync returns an error; a pool
\* step that has returned for a spec requiring the pool has fetched the
\* deployment unless the install failed.
LookupFunctionFirst ==
    /\ pc = "pool.lookup" =>
           /\ c.Postgresql.pool
           /\ ~loc.oldSpec.pool \/ ~c.ConnectionPool.LookupFunction
    /\ pc \in PoolWorker =>
           /\ c.Postgresql.pool
           /\ LookupCalls = {} => loc.oldSpec.pool /\ c.ConnectionPool.LookupFunction
           /\ \A l \in LookupCalls : trace[l][3] = "ok"
    /\ Cardinality(LookupCalls) <= 1
    /\ \A l \in LookupCalls : \A k \in PoolSyncCalls : l < k
    /\ (\E l \in LookupCalls : trace[l][3] = "Other") =>
           /\ PoolSyncCalls = {}
           /\ pc \in {"defer", "idle"}
           /\ pc = "defer" => loc.retval # NoError
           /\ pc = "idle" => ret # NoError
    /\ (rets # <<>> /\ rets[Len(rets)].step = "pool" /\ c.Postgresql.pool) =>
           \/ \E l \in LookupCalls : trace[l][3] = "Other"
           \/ \E k \in PoolSyncCalls : trace[k][1] = "deployment" /\ trace[k][2] = "get"

\* old and new spec require the pool, the function is marked installed: the
\* dependent resources are synced without an install
LookupFunctionFirstReached ==
    /\ pc = "pool.service"
    /\ loc.oldSpec.pool /\ c.Postgresql.pool
    /\ c.ConnectionPool.LookupFunction
    /\ LookupCalls = {}

\* the calls of the pass with which deleteConnectionPool starts
DeleteCalls ==
    {k \in 1..Len(trace) : trace[k][1] = "deployment" /\ trace[k][2] = "delete"}

\* the pool step has returned
PoolReturned == rets # <<>> /\ rets[Len(rets)].step = "pool"

\* C11: deleteConnectionPool is called only for a spec that does not require
\* the pool, and then only if the old spec required it or the bundle holds a
\* deployment or a service; in that case it is called, once; a pool step for
\* such a spec returns no error whatever the deletion answers, and neither
\* does Sync.
PoolTeardown ==
    LET new == NeedConnectionPoolWorker(c.Postgresql)
        old == NeedConnectionPoolWorker(loc.oldSpec)
    IN  /\ pc \in {"pool.delete", "pool.delete.service"} =>
               ~new /\ (old \/ BundleNotEmpty(c))
        /\ DeleteCalls # {} => ~new /\ Cardinality(DeleteCalls) = 1
        /\ (pc = "defer" /\ PoolReturned /\ ~new /\ (old \/ BundleNotEmpty(c))) =>
               DeleteCalls # {}
        /\ (pc = "defer" /\ PoolReturned /\ ~new) =>
               rets[Len(rets)].err = NoError /\ loc.retval = NoError
        /\ (pc = "idle" /\ PoolReturned /\ ~new) => ret = NoError

\* a pool step whose deletion failed has returned
PoolTeardownReached ==
    /\ pc = "defer"
    /\ PoolReturned
    /\ \E k \in 1..Len(trace) :
           trace[k][1] \in {"deployment", "poolsvc"} /\ trace[k][2] = "delete"
           /\ trace[k][3] = "Other"
    /\ loc.retval = NoError

\* the call with which the database reconciler of this pass read the
\* databases, and the statements it has issued since
DatabasesRead ==
    {k \in 1..Len(trace) : trace[k][1] = "db" /\ trace[k][2] = "getDatabases"
                           /\ trace[k][3] = "ok"}

Statements(op) ==
    {k \in 1..Len(trace) : trace[k][1] = "db" /\ trace[k][2] = op}

StatementsOn(op, d) == {k \in Statements(op) : trace[k][4] = d}

\* the database reconciler has returned without an error
DatabasesDone ==
    \E i \in 1..Len(rets) : rets[i].step = "databases" /\ rets[i].err = NoError

\* C12: with `live` the map the reconciler read and `declared` the map of
\* the spec, a create is issued only for a declared database that is not in
\* live and an owner change only for a declared database whose owner in
\* live is another, at most one statement for a database, and no create
\* after an owner change; a reconciler that has returned without error has
\* issued the create of every such database and the owner change of every
\* such database.
DatabaseStatements ==
    \A g \in DatabasesRead :
        LET live == trace[g][4]
            declared == Databases(c.Postgresql)
            missing == DOMAIN declared \ DOMAIN live
            misowned == {d \in DOMAIN declared \cap DOMAIN live : live[d] # declared[d]}
            creates == Statements("createDatabase")
            alters == Statements("alterOwner")
        IN  /\ \A k \in creates : g < k /\ trace[k][4] \in missing
            /\ \A k \in alters : g < k /\ trace[k][4] \in misowned
            /\ \A d \in DatabaseNames :
                   Cardinality(StatementsOn("createDatabase", d))
                   + Cardinality(StatementsOn("alterOwner", d)) <= 1
            /\ \A k \in creates : \A j \in alters : k < j
            /\ DatabasesDone =>
                   /\ \A d \in missing :
                          Cardinality(StatementsOn("createDatabase", d)) = 1
                   /\ \A d \in misowned :
                          Cardinality(StatementsOn("alterOwner", d)) = 1

\* the reconciler has returned after a create and an owner change, on a
\* server that also holds a database with the declared owner or an
\* undeclared one
DatabaseStatementsReached ==
    /\ DatabasesDone
    /\ Statements("createDatabase") # {}
    /\ Statements("alterOwner") # {}
    /\ \E g \in DatabasesRead : "z" \in DOMAIN trace[g][4]

\* the creates of step i that found the object in place
RacedCreates(i) ==
    {k \in From(i)..rets[i].at : /\ trace[k][1] \in StoreKinds
                                 /\ trace[k][2] = "create"
                                 /\ trace[k][3] = "AlreadyExists"}

\* C13: after a create that finds the object in place the reconciler does
\* not return but fetches the object, once; after a fetch that succeeds it
\* goes on or returns without error.
CreateRaceTolerated ==
    \A i \in 1..Len(rets) :
        \A k \in RacedCreates(i) :
            /\ k < rets[i].at
            /\ trace[k + 1][1] = trace[k][1] /\ trace[k + 1][2] = "get"
            /\ k + 2 <= rets[i].at =>
                   ~(trace[k + 2][1] = trace[k][1] /\ trace[k + 2][2] = "get")
            /\ (trace[k + 1][3] = "ok" /\ rets[i].at = k + 1) => rets[i].err = NoError

\* C14: at most one call of Sync is past Lock and not yet past Unlock; the
\* mutex is held exactly while one is, which is exactly while a pass is in
\* progress; the spec is recorded only by a step that leaves the mutex held
\* and the status is set only by a step that found it held.
MutualExclusion ==
    /\ [](/\ c.passes <= 1
          /\ Locked(c) <=> c.passes = 1
          /\ Locked(c) <=> pc # "idle")
    /\ [][/\ c'.Postgresql # c.Postgresql => Locked(c')
          /\ c'.Status # c.Status => Locked(c)]_vars

\* a pass that failed has released the mutex
MutualExclusionReached ==
    /\ pc = "idle"
    /\ rets # <<>>
    /\ ret # NoError
    /\ ~Locked(c)
    /\ c.passes = 0
    /\ c.Status = "SyncFailed"

\* the positions of the workload step from the comparison on
AfterCompare ==
    {"sset.update", "sset.replace", "sset.replace.create", "sset.config",
     "sset.patroni", "sset.recreate", "sset.clear"}

\* what the workload step found for a statefulset that is present: a rolling
\* update is pending, or the comparator asks for one with a mismatch
RollingDecision == loc.pending \/ (~loc.match /\ loc.rollingUpdate)

\* C15: for a statefulset that is present, podsRollingUpdateRequired is the
\* pending flag or the comparator's demand; the pods are recreated only if
\* it is true; the statefulset that an update or a replace has put in place
\* bears it as its flag until the flag is cleared; and the step leaves the
\* configuration for the recreation of the pods if it is true, unless the
\* configuration fails, and never if it is false.
RollingDecided ==
    /\ []((loc.present /\ pc \in AfterCompare) =>
            /\ loc.rolling = RollingDecision
            /\ pc \in {"sset.recreate", "sset.clear"} => RollingDecision
            /\ (~loc.match /\ pc \in {"sset.config", "sset.patroni", "sset.recreate"}) =>
                   kube.sset.here /\ kube.sset.flag = RollingDecision)
    /\ [][(/\ loc.present
           /\ pc \in {"sset.config", "sset.patroni"}
           /\ pc' \notin {"sset.config", "sset.patroni"}) =>
              IF RollingDecision
              THEN \/ pc' = "sset.recreate"
                   \/ rets'[Len(rets')].step = "sset" /\ rets'[Len(rets')].err # NoError
              ELSE pc' # "sset.recreate"]_vars

\* the pods are recreated for a statefulset that was updated on the
\* comparator's demand, none having been pending
RollingDecidedReached ==
    /\ pc = "sset.recreate"
    /\ loc.present /\ ~loc.pending /\ ~loc.match /\ loc.rollingUpdate
    /\ kube.sset.flag

\* the calls of the pass that push the parameters, those that create, update
\* or replace the statefulset, and those that recreate the pods
Pushes == {k \in 1..Len(trace) : trace[k][1] = "patroni"}

StatefulSetChanges ==
    {k \in 1..Len(trace) : /\ trace[k][1] = "sset"
                           /\ trace[k][2] \in {"create", "update", "delete"}}

Recreations ==
    {k \in 1..Len(trace) : trace[k][1] = "pod" /\ trace[k][2] = "recreate"}

\* the workload step has returned the error of the configuration
ConfigurationFailed ==
    \E i \in 1..Len(rets) :
        /\ rets[i].step = "sset"
        /\ rets[i].err # NoError
        /\ rets[i].err.ctx[1] = "could not set cluster-wide PostgreSQL configuration options"

\* C16: the parameters are pushed only for a spec that holds some, after
\* every create, update or replace of the statefulset in the pass, each of
\* which has succeeded, and before every recreation of the pods; the pods
\* are recreated for such a spec only after a push that succeeded; after a
\* push that failed the step returns the error of the configuration, and
\* after that error no pod is recreated in the pass.
TunablesOrdering ==
    /\ Pushes # {} => c.Postgresql.params
    /\ \A k \in Pushes :
           /\ \A j \in StatefulSetChanges : j < k /\ trace[j][3] = "ok"
           /\ \A j \in Recreations : k < j
           /\ (trace[k][3] # "ok" /\ pc # "sset.patroni") => ConfigurationFailed
    /\ \A j \in Recreations :
           c.Postgresql.params => \E k \in Pushes : k < j /\ trace[k][3] = "ok"
    /\ ConfigurationFailed => Recreations = {} /\ pc \in {"defer", "idle"}

\* the pods are being recreated after the statefulset was changed and the
\* parameters were pushed
TunablesOrderingReached ==
    /\ pc = "sset.clear"
    /\ StatefulSetChanges # {}
    /\ \E k \in Pushes : trace[k][3] = "ok"

\* the calls of the pass that opened a database connection, and those that
\* closed one or tried to
Opens == {k \in 1..Len(trace) : trace[k] = <<"db", "open", "ok">>}

Closes == {k \in 1..Len(trace) : trace[k][1] = "db" /\ trace[k][2] = "close"}

\* the positions of the role and database reconcilers with the connection open
Connected ==
    {"roles.read", "roles.exec", "roles.close", "databases.get", "databases.create",
     "databases.alter", "databases.close"}

\* C17: a role or database reconciler that has returned has closed the
\* connection once if it opened it, as its last call, and not at all if it
\* did not; a connection is opened in these reconcilers only, and while the
\* reconciler that opened it runs it is open and no close has been called;
\* after a close that succeeded no connection is open until the next is
\* opened, so that none is open at the end of a pass that opened one and in
\* which no close failed.
ScopedConnection ==
    /\ \A k \in Opens :
           IF k > Returned
           THEN /\ pc \in Connected
                /\ pg.conn
                /\ \A j \in k + 1..Len(trace) : j \notin Opens \cup Closes
           ELSE \E i \in 1..Len(rets) :
                    /\ From(i) <= k /\ k < rets[i].at
                    /\ rets[i].step \in {"roles", "databases"}
                    /\ rets[i].at \in Closes
                    /\ \A j \in k + 1..rets[i].at - 1 : j \notin Opens \cup Closes
    /\ \A j \in Closes :
           \E i \in 1..Len(rets) :
               rets[i].at = j /\ \E k \in Opens : From(i) <= k /\ k < j
    /\ pc \in Connected => \E k \in Opens : k > Returned
    /\ (trace # <<>> /\ trace[Len(trace)] = <<"db", "close", "ok">>) => ~pg.conn
    /\ (/\ pc \in {"defer", "idle"}
        /\ Opens # {}
        /\ \A j \in Closes : trace[j][3] = "ok") => ~pg.conn

\* the role reconciler has returned the error of the read, the connection
\* closed
ScopedConnectionReached ==
    /\ pc = "defer"
    /\ rets[Len(rets)].step = "roles"
    /\ \E k \in 1..Len(trace) - 1 :
           trace[k] = <<"db", "readUsers", "Other">> /\ trace[k + 1] = <<"db", "close", "ok">>
    /\ ~pg.conn

\* the role and database reconcilers of the pass whose close failed
FailedCloses ==
    {i \in 1..Len(rets) : /\ rets[i].step \in {"roles", "databases"}
                          /\ rets[i].at > 0
                          /\ trace[rets[i].at] = <<"db", "close", "Other">>}

\* C18: a role or database reconciler whose close failed returns an error
\* that reports the close, and the pass stops with it.
CloseFailureReported ==
    \A i \in FailedCloses :
        /\ rets[i].err # NoError
        /\ rets[i].err.ctx[1] = "could not close database connection"
        /\ rets[i].err.origin = <<"db", "close">>
        /\ i = Len(rets)
        /\ pc \in {"defer", "idle"}

\* C19: when the pool step has returned without error for a spec that
\* requires the pool, the store holds a pool deployment and a pool service
\* and the bundle holds both; no call of the pass updates or deletes the
\* pool service for such a spec.
PoolResourcesSynced ==
    NeedConnectionPoolWorker(c.Postgresql) =>
        /\ (pc = "defer" /\ PoolReturned /\ rets[Len(rets)].err = NoError) =>
               /\ kube.deployment.here /\ kube.poolsvc.here
               /\ c.ConnectionPool.Deployment.here /\ c.ConnectionPool.Service.here
        /\ pc # "idle" =>
               \A k \in 1..Len(trace) :
                   trace[k][1] = "poolsvc" => trace[k][2] \in {"get", "create"}

\* the calls of the trace on a resource of the kind
Calls(kind) == {k \in 1..Len(trace) : trace[k][1] = kind}

\* the calls of the trace on the resource of the kind that the role has
CallsOf(kind, role) == {k \in Calls(kind) : trace[k][4] = role}

\* among the calls ks on a resource, a fetch found nothing and no fetch or
\* create has succeeded since
KnownAbsent(ks) ==
    \E k \in ks :
        /\ trace[k][2] = "get" /\ trace[k][3] = "NotFound"
        /\ \A j \in ks : j > k => ~(trace[j][2] \in {"get", "create"} /\ trace[j][3] = "ok")

\* C20: a cached reference is nil from the NotFound answer of its
\* resource's fetch until a create or a fetch of the resource succeeds, for
\* the service and the endpoint of the role at hand, the pod disruption
\* budget, the statefulset, the pool deployment and the pool service.
CachedReflectsObservation ==
    /\ \A r \in DOMAIN c.Services : KnownAbsent(CallsOf("service", r)) => ~c.Services[r].here
    /\ \A r \in DOMAIN c.Endpoints : KnownAbsent(CallsOf("endpoint", r)) => ~c.Endpoints[r].here
    /\ KnownAbsent(Calls("pdb")) => ~c.PodDisruptionBudget.here
    /\ KnownAbsent(Calls("sset")) => ~c.Statefulset.here
    /\ KnownAbsent(Calls("deployment")) => ~c.ConnectionPool.Deployment.here
    /\ KnownAbsent(Calls("poolsvc")) => ~c.ConnectionPool.Service.here

\* the calls of the trace that failed to clear the rolling-update flag
FailedClears == {k \in 1..Len(trace) : trace[k] = <<"sset", "clearflag", "Other">>}

\* the positions of the workload step
InStatefulSet ==
    {"sset", "sset.listPods", "sset.create", "sset.wait", "sset.flag", "sset.update",
     "sset.replace", "sset.replace.create", "sset.config", "sset.patroni",
     "sset.recreate", "sset.clear"}

\* C21: a failure to clear the rolling-update flag comes right after the
\* recreation of the pods, the workload step returns no error with it and
\* the pass goes on with the pod disruption budget; the live statefulset
\* keeps the flag; a pass that finds the flag on the live statefulset takes
\* it as pending and decides to recreate the pods, and with a pending flag
\* the workload step returns no error only from the attempt to clear it.
ClearBestEffort ==
    /\ [](\A k \in FailedClears :
            /\ k > 1 /\ trace[k - 1] = <<"pod", "recreate", "ok">>
            /\ \E i \in 1..Len(rets) :
                   /\ rets[i] = [step |-> "sset", err |-> NoError, at |-> k]
                   /\ i = Len(rets) => pc \in {"pdb", "pdb.update", "pdb.create", "pdb.fetch"}
                   /\ i < Len(rets) => rets[i + 1].step = "pdb"
            /\ pc # "idle" => kube.sset.here
            /\ kube.sset.here => kube.sset.flag)
    /\ [][(pc = "sset" /\ kube.sset.here /\ kube.sset.flag /\ pc' \in InStatefulSet) =>
              loc'.pending /\ loc'.rolling]_vars
    /\ [][(pc \in InStatefulSet /\ loc.pending /\ pc' = "pdb") =>
              /\ pc = "sset.clear"
              /\ trace'[Len(trace')][1] = "sset" /\ trace'[Len(trace')][2] = "clearflag"]_vars

\* the flag could not be cleared and the pass is at the pod disruption budget
ClearBestEffortReached ==
    /\ pc = "pdb"
    /\ FailedClears # {}
    /\ kube.sset.flag

\* the statefulset was updated or replaced in this pass
Applied ==
    \E k \in 1..Len(trace) :
        \/ trace[k] = <<"sset", "update", "ok">>
        \/ k > 1 /\ trace[k - 1] = <<"sset", "delete", "ok">> /\ trace[k] = <<"sset", "create", "ok">>

\* the pods were recreated in this pass
Recreated == \E k \in 1..Len(trace) : trace[k] = <<"pod", "recreate", "ok">>

\* C22: when the workload step fails in the configuration or in the
\* recreation of the pods after an update or a replace that stamped the
\* rolling-update flag, no pod has been recreated and the live statefulset
\* bears the flag, which the return of Sync leaves as it is; a pass that
\* finds the flag on the live statefulset leaves the workload step either
\* with an error or from the clear of the flag, and a clear of the flag
\* comes right after the recreation of the pods.
PendingSurvives ==
    /\ [][(/\ pc \in {"sset.config", "sset.patroni", "sset.recreate"}
           /\ loc.present /\ ~loc.match /\ loc.rolling
           /\ pc' = "defer") =>
              /\ Applied' /\ ~Recreated'
              /\ kube'.sset.here /\ kube'.sset.flag]_vars
    /\ [][pc = "defer" => kube' = kube]_vars
    /\ [][(pc = "sset" /\ kube.sset.here /\ kube.sset.flag /\ pc' \in InStatefulSet) =>
              loc'.pending]_vars
    /\ [][(pc \in InStatefulSet /\ loc.pending /\ pc' \notin InStatefulSet) =>
              \/ pc' = "defer"
              \/ pc = "sset.clear" /\ Recreated]_vars
    /\ [](\A k \in 1..Len(trace) :
            (trace[k][1] = "sset" /\ trace[k][2] = "clearflag") =>
                k > 1 /\ trace[k - 1] = <<"pod", "recreate", "ok">>)

\* a pass has failed in the configuration or in the recreation of the pods
\* after it stamped the flag with an update or a replace
PendingSurvivesReached ==
    /\ pc = "defer"
    /\ Applied /\ ~Recreated
    /\ trace[Len(trace)] \in {<<"pod", "recreate", "Other">>, <<"patroni", "set", "Other">>}
    /\ kube.sset.flag

\* C23: when Sync has just returned without error, no pods are left that
\* were found (line 267) before the workload step created the statefulset
\* (line 272) and have not been recreated since.
OrphansRemembered ==
    (pc = "idle" /\ quiet) => ~kube.leftover

\* the positions of the connection pool step
InPool ==
    {"pool", "pool.lookup", "pool.deployment", "pool.deployment.create",
     "pool.deployment.update", "pool.service", "pool.service.create",
     "pool.delete", "pool.delete.service"}

\* C24: a pass takes the spec that was current as its old spec, and the spec
\* it was given stays the current one through the pass and its return,
\* failed or not; the bundle is as it was until a pass reaches the connection
\* pool step; and a connection pool step with an old and a new spec that do
\* not require the pool, on a bundle that holds a deployment or a service,
\* goes to deleteConnectionPool, which starts with the delete of the
\* deployment.
TeardownCaughtUp ==
    /\ [][(pc = "idle" /\ pc' # "idle") => loc'.oldSpec = c.Postgresql]_vars
    /\ [][pc # "idle" => c'.Postgresql = c.Postgresql]_vars
    /\ [][(pc \notin InPool /\ pc' \notin InPool) =>
              /\ c'.ConnectionPool.Deployment = c.ConnectionPool.Deployment
              /\ c'.ConnectionPool.Service = c.ConnectionPool.Service]_vars
    /\ [][(/\ pc = "pool"
           /\ ~NeedConnectionPoolWorker(loc.oldSpec)
           /\ ~NeedConnectionPoolWorker(c.Postgresql)
           /\ c.ConnectionPool.Deployment.here \/ c.ConnectionPool.Service.here) =>
              pc' = "pool.delete"]_vars
    /\ [][pc = "pool.delete" =>
              /\ trace'[Len(trace')][1] = "deployment"
              /\ trace'[Len(trace')][2] = "delete"]_vars

\* the pass before this one failed before its connection pool step, and this
\* one, whose old and new spec do not require the pool, is about to delete
\* the deployment the bundle still holds
TeardownCaughtUpReached ==
    /\ pc = "pool.delete"
    /\ ~NeedConnectionPoolWorker(loc.oldSpec)
    /\ ~NeedConnectionPoolWorker(c.Postgresql)
    /\ c.ConnectionPool.Deployment.here
    /\ kube.deployment.here
    /\ c.Status = "SyncFailed"

====
